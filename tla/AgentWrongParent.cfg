SPECIFICATION Spec
INVARIANT AnswersItsQuestion
CONSTANTS
    Turns = {t1, t2, t3}
    Overlap = TRUE
    Faults = {}
    None = None
