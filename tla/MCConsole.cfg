\* Two processes read and write, one of whom may be killed; a ring of three
\* characters whose indices wrap after six.
CONSTANTS
    Procs = {p1, p2}
    Letters = {"a"}
    INPUT_BUF = 3
    IMod = 6
    Lens = {2}
    Killable = {p1}
SPECIFICATION Spec
INVARIANTS RingSound WaitSound
PROPERTIES ImplementsTty EofIsZeroBytes
