--------------------------------- MODULE Tty ---------------------------------
(***************************************************************************)
(* What the console's input promises its users: the keys of the current    *)
(* line may be erased until the line is committed, what is committed is    *)
(* handed out once and in order, and input is refused only while Size      *)
(* characters wait.                                                        *)
(***************************************************************************)
EXTENDS Naturals, Sequences, SequencesExt

CONSTANTS Chars, Newline, Eof, Size

VARIABLES
    line,       \* typed and still erasable
    ready       \* committed and not yet read

ttyVars == <<line, ready>>

TtyInit == line = <<>> /\ ready = <<>>

Typed(c) ==
    /\ Len(line) + Len(ready) < Size
    /\ IF c \in {Newline, Eof} \/ Len(line) + Len(ready) + 1 = Size
         THEN ready' = ready \o Append(line, c) /\ line' = <<>>
         ELSE line' = Append(line, c) /\ UNCHANGED ready

Erase == line # <<>> /\ line' = Front(line) /\ UNCHANGED ready

KillLine == line' = <<>> /\ UNCHANGED ready

Take ==
    /\ ready # <<>>
    /\ ready' = Tail(ready)
    /\ UNCHANGED line

TtyNext == (\E c \in Chars : Typed(c)) \/ Erase \/ KillLine \/ Take

TtySpec == TtyInit /\ [][TtyNext]_ttyVars
=============================================================================
