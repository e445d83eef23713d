SPECIFICATION Spec
CONSTANTS
    Window = 4
    MaxData = 9
    MaxWire = 5
INVARIANTS IInv AckedIsReceived
PROPERTIES ImplementsStream
