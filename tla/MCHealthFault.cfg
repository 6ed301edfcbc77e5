SPECIFICATION Spec
CONSTANT MaxRetries = 3
PROPERTY FaultShows
