CONSTANTS
    Byte = 4
    Nibble = 2
    Button = {left, right}
    left = left
    right = right
    Padding = Padding
    Empty = Empty
    MaxInput = 3
    MaxReset = 1

SPECIFICATION Spec

PROPERTY ButtonsSettle
