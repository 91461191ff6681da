\* A reordering, a withdrawal, a submission, HMRC's "Start processing" and
\* the envelope task, two at a time, on an idle queue.
CONSTANTS
    Session = {s1, s2}
    Pwb = {p1, p2, p3}
    InHand = {}
    Waiting = 2
    Kinds = {"promote_position", "abandon", "create", "begin_processing", "create_xml_envelope_file"}
    None = None
SPECIFICATION Spec
SYMMETRY Symmetry
INVARIANT NoRowLost
CHECK_DEADLOCK FALSE
