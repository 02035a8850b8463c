SPECIFICATION Spec
CONSTANTS
    p = p
    q = q
    d = d
    e = e
    Procs = {p, q}
    Devices = {d, e}
    Uses <- MCUses
    Failures = {"init", "list", "config", "string", "open", "detach", "transfer"}
SYMMETRY MCSymmetry
INVARIANTS
    ExchangeTypeOK
    NothingHeld
    PacketOutcome
    QuietScans
PROPERTIES
    ImplementsServer
    CallAdvances
