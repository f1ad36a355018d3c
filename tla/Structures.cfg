SPECIFICATION MCSpec
CONSTANTS
    Off = Off
    Null = Null
    Nodes = {n1, n2, n3}
    Values = {x, y}
    MaxIndex = 4
INVARIANTS ListSound  SamplesAgree StringsAgree
PROPERTY StructuresImplement
CHECK_DEADLOCK FALSE
