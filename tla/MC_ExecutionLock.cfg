SPECIFICATION Spec
CONSTANT Proc = {p1, p2, p3}
PROPERTY RefusedOnlyWhileTaskRuns
