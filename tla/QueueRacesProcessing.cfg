CONSTANTS
    Session = {s1, s2, s3}
    Pwb = {p1, p2}
    InHand = {}
    Waiting = 2
    Kinds = {"promote_to_top_position", "begin_processing"}
    None = None
SPECIFICATION Spec
INVARIANTS AtMostOneProcessing
CHECK_DEADLOCK FALSE
