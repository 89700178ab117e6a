SPECIFICATION Spec
CONSTANTS
    Device <- Devices
    Zero = "zero"
    Robots <- TwoRobots
    MaxTime = 2
    MaxEntries = 2

PROPERTIES
    DescriptionIsReplaced
