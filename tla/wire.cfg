SPECIFICATION Spec
CONSTANTS
    BYTES = 4
    Ports <- MCPorts
    Numbers <- MCNumbers
    Payloads <- MCPayloads
INVARIANTS
    TypeOK
    ArrivesIntact
    DamageNoticed
PROPERTY
    OneFieldSet
