------------------------------- MODULE Console -------------------------------
(***************************************************************************)
(* Console input (xv6/console.c): the keyboard interrupt fills a ring with *)
(* line editing, several processes read it and others write to the console *)
(* device.  The ring's indices are uints of range IMod (2^32 in the code). *)
(* Reads and writes arrive with the console's inode locked by fileread()   *)
(* and filewrite().  Echo and output are left out: they change no state.   *)
(***************************************************************************)
EXTENDS Integers, Sequences, FiniteSets

CONSTANTS
    Procs,              \* processes that read and write the console
    Letters,            \* characters without a special meaning
    INPUT_BUF, IMod,
    Lens,               \* bound: the sizes passed to read()
    Killable            \* processes that somebody may kill

Nobody == "nobody"
Intr == "intr"          \* consoleintr(), as a holder of cons.lock

Newline == "nl"
Eof == "^D"
Chars == Letters \cup {Newline, Eof}

\* What getc() may return: also carriage return, the editing keys, the process
\* listing and 0, which kbdgetc() returns for a key that goes up.
Keys == Chars \cup {"cr", "^U", "^H", "^P", "zero"}

ASSUME ConsoleAssumption ==
    /\ {Nobody, Intr} \cap Procs = {}
    /\ Letters # {}
    /\ {Newline, Eof, "cr", "^U", "^H", "^P", "zero"} \cap Letters = {}
    /\ INPUT_BUF \in Nat \ {0}
    /\ IMod \in Nat /\ IMod > INPUT_BUF /\ IMod % INPUT_BUF = 0
    /\ Lens \subseteq Nat \ {0} /\ IsFiniteSet(Lens)
    /\ Killable \subseteq Procs

VARIABLES
    buf, r, w, e,       \* struct input
    lock,               \* holder of cons.lock
    ilk,                \* holder of the inode's sleep lock
    killed,
    pc, n, target,      \* position and locals of a read or write
    intr,               \* position of consoleintr()
    doprocdump

input == <<buf, r, w, e>>
handler == <<intr, doprocdump>>
call == <<pc, n, target>>
vars == <<input, lock, ilk, killed, call, handler>>

Index == 0 .. IMod - 1
Slots == 0 .. INPUT_BUF - 1

TypeOK ==
    /\ buf \in [Slots -> Chars]
    /\ r \in Index /\ w \in Index /\ e \in Index
    /\ lock \in Procs \cup {Nobody, Intr}
    /\ ilk \in Procs \cup {Nobody}
    /\ killed \in [Procs -> BOOLEAN]
    /\ pc \in [Procs -> {"idle", "locked", "acquire", "loop", "tosleep",
                      "asleep", "relock"}]
    /\ target \in [Procs -> Lens \cup {0}]
    /\ n \in [Procs -> Nat] /\ \A p \in Procs : n[p] <= target[p]
    /\ intr \in {"idle", "loop", "procdump"}
    /\ doprocdump \in BOOLEAN

Init ==
    /\ buf \in {[s \in Slots |-> ch] : ch \in Letters}
    /\ r = 0 /\ w = 0 /\ e = 0
    /\ lock = Nobody /\ ilk = Nobody
    /\ killed = [p \in Procs |-> FALSE]
    /\ pc = [p \in Procs |-> "idle"]
    /\ n = [p \in Procs |-> 0] /\ target = [p \in Procs |-> 0]
    /\ intr = "idle" /\ doprocdump = FALSE

\* uint arithmetic, on indices that wrap.
Plus(x, k) == (x + k) % IMod
Minus(x, k) == (x - k) % IMod
At(x) == buf[x % INPUT_BUF]

\* wakeup(&input.r): a woken reader goes on to reacquire cons.lock in sleep().
wakeupOne(f) ==
    IF \E p \in Procs : f[p] = "asleep"
      THEN [f EXCEPT ![CHOOSE p \in Procs : f[p] = "asleep"] = "acquire"]
      ELSE f
wakeup(f) == [p \in Procs |-> IF f[p] = "asleep" THEN "acquire" ELSE f[p]]

-----------------------------------------------------------------------------
(* consoleintr(), on the CPU that takes the keyboard and serial interrupts. *)

consoleintr ==
    /\ intr = "idle" /\ lock = Nobody
    /\ lock' = Intr /\ intr' = "loop" /\ doprocdump' = FALSE
    /\ UNCHANGED <<input, ilk, killed, call>>

\* The characters of the line that a kill-line erases, as the number of steps
\* e goes back: up to w or to the last newline.
KilledTooFar == CHOOSE k \in 0 .. INPUT_BUF :
    /\ Minus(e, k) = r \/ At(Minus(e, k + 1)) = Newline
    /\ \A j \in 0 .. k - 1 : Minus(e, j) # r /\ At(Minus(e, j + 1)) # Newline
Killed == CHOOSE k \in 0 .. INPUT_BUF :
    /\ Minus(e, k) = w \/ At(Minus(e, k + 1)) = Newline
    /\ \A j \in 0 .. k - 1 : Minus(e, j) # w /\ At(Minus(e, j + 1)) # Newline

Erasable == e # w

Erase(ch) ==
    /\ \/ ch = "^U" /\ e' = Minus(e, Killed)
       \/ ch = "^H" /\ e' = IF Erasable THEN Minus(e, 1) ELSE e
    /\ UNCHANGED <<buf, r, w, pc>>

CommitsNotWhenFull(ch) == ch \in {Newline, Eof}
Commits(ch) == ch \in {Newline, Eof} \/ Plus(e, 1) = Plus(r, INPUT_BUF)

Room == Minus(e, r) < INPUT_BUF

Store(ch) ==
    /\ buf' = [buf EXCEPT ![e % INPUT_BUF] = ch]
    /\ e' = Plus(e, 1)
    /\ IF Commits(ch) THEN w' = e' /\ pc' = wakeup(pc) ELSE UNCHANGED <<w, pc>>
    /\ UNCHANGED r

\* One turn of the loop over getc().
Key(ch) ==
    /\ intr = "loop"
    /\ doprocdump' = (doprocdump \/ ch = "^P")
    /\ \/ ch \in {"^P", "zero"} /\ UNCHANGED <<input, pc>>
       \/ Erase(ch)
       \/ /\ ch \in Chars \cup {"cr"}
          /\ IF Room THEN Store(IF ch = "cr" THEN Newline ELSE ch)
                     ELSE UNCHANGED <<input, pc>>
    /\ UNCHANGED <<lock, ilk, killed, n, target, intr>>

\* getc() has no more: the lock is released before procdump(), whose cprintf()
\* takes it.
IntrDone ==
    /\ intr = "loop"
    /\ lock' = Nobody
    /\ intr' = IF doprocdump THEN "procdump" ELSE "idle"
    /\ UNCHANGED <<input, ilk, killed, call, doprocdump>>

procdump ==
    /\ intr = "procdump" /\ lock = Nobody
    /\ intr' = "idle" /\ doprocdump' = FALSE
    /\ UNCHANGED <<input, lock, ilk, killed, call>>

-----------------------------------------------------------------------------
(* read() and write() on the console device. *)

\* fileread() and filewrite() lock the inode and call the device.  A write needs
\* no local here, and a read of no bytes does what a write does.
Enter(p, k) ==
    /\ pc[p] = "idle" /\ ~killed[p] /\ ilk = Nobody
    /\ ilk' = p
    /\ pc' = [pc EXCEPT ![p] = "locked"]
    /\ n' = [n EXCEPT ![p] = k] /\ target' = [target EXCEPT ![p] = k]
    /\ UNCHANGED <<input, lock, killed, handler>>

fileread(p) == \E k \in Lens : Enter(p, k)
filewrite(p) == Enter(p, 0)

\* consoleread() and consolewrite() begin by releasing the inode.
iunlock(p) ==
    /\ pc[p] = "locked"
    /\ pc' = [pc EXCEPT ![p] = "acquire"]
    /\ ilk' = Nobody
    /\ UNCHANGED <<input, lock, killed, n, target, handler>>

\* They end by locking it again for the caller, which unlocks it and returns.
ilock(p) ==
    /\ pc[p] = "relock" /\ ilk = Nobody
    /\ pc' = [pc EXCEPT ![p] = "idle"]
    /\ n' = [n EXCEPT ![p] = 0] /\ target' = [target EXCEPT ![p] = 0]
    /\ UNCHANGED <<input, lock, ilk, killed, handler>>

acquire(p) ==
    /\ pc[p] = "acquire" /\ lock = Nobody
    /\ lock' = p
    /\ pc' = [pc EXCEPT ![p] = "loop"]
    /\ UNCHANGED <<input, ilk, killed, n, target, handler>>

\* The lock is released and the inode locked again.
Leave(p) ==
    /\ lock' = Nobody
    /\ pc' = [pc EXCEPT ![p] = "relock"]

consolewrite(p) ==
    /\ pc[p] = "loop" /\ target[p] = 0
    /\ Leave(p)
    /\ UNCHANGED <<input, ilk, killed, n, target, handler>>

Reading(p) == pc[p] = "loop" /\ target[p] > 0

\* The reader has all it asked for, or is killed while it waits.
ReadEnds(p) ==
    /\ Reading(p)
    /\ n[p] = 0 \/ (r = w /\ killed[p])
    /\ Leave(p)
    /\ UNCHANGED <<input, ilk, killed, n, target, handler>>

Wait(p) ==
    /\ Reading(p) /\ n[p] > 0 /\ r = w /\ ~killed[p]
    /\ pc' = [pc EXCEPT ![p] = "tosleep"]
    /\ UNCHANGED <<input, lock, ilk, killed, n, target, handler>>

\* sleep(&input.r, &cons.lock): cons.lock goes once ptable.lock is held.
sleep(p) ==
    /\ pc[p] = "tosleep"
    /\ pc' = [pc EXCEPT ![p] = "asleep"]
    /\ lock' = Nobody
    /\ UNCHANGED <<input, ilk, killed, n, target, handler>>

\* A ^D ends the call; one met after other characters is saved for next time.
TakeEofForgetful(p) ==
    /\ r' = Plus(r, 1)
    /\ Leave(p)
    /\ UNCHANGED <<n>>
TakeEof(p) ==
    /\ r' = IF n[p] < target[p] THEN r ELSE Plus(r, 1)
    /\ Leave(p)
    /\ UNCHANGED <<n>>

TakeChar(p) ==
    /\ r' = Plus(r, 1)
    /\ n' = [n EXCEPT ![p] = @ - 1]
    /\ IF At(r) = Newline THEN Leave(p) ELSE UNCHANGED <<lock, pc>>

consoleread(p) ==
    /\ Reading(p) /\ n[p] > 0 /\ r # w
    /\ IF At(r) = Eof THEN TakeEof(p) ELSE TakeChar(p)
    /\ UNCHANGED <<buf, w, e, ilk, killed, target, handler>>

\* kill() makes a sleeper runnable.
kill(p) ==
    /\ p \in Killable /\ ~killed[p]
    /\ killed' = [killed EXCEPT ![p] = TRUE]
    /\ pc' = [pc EXCEPT ![p] = IF @ = "asleep" THEN "acquire" ELSE @]
    /\ UNCHANGED <<input, lock, ilk, n, target, handler>>

Step(p) ==
    \/ iunlock(p) \/ consolewrite(p) \/ ReadEnds(p) \/ Wait(p) \/ sleep(p)
    \/ consoleread(p)

Next ==
    \/ consoleintr \/ IntrDone \/ procdump
    \/ \E ch \in Keys : Key(ch)
    \/ \E p \in Procs : fileread(p) \/ filewrite(p) \/ ilock(p) \/ acquire(p)
                        \/ Step(p) \/ kill(p)

Spec == Init /\ [][Next]_vars

-----------------------------------------------------------------------------
\* console.c, consoleread() against consoleintr(): nobody sleeps for input, or
\* is about to, while committed input waits, whoever else was woken, killed or
\* has put back a ^D meanwhile.
SleeperHasReason == \A p \in Procs : pc[p] \in {"tosleep", "asleep"} => r = w

\* The ring's indices, which wrap: w stays between r and e, no more than the
\* ring's size is in use, and a full ring is a committed one, for otherwise no
\* key but an editing one would ever be accepted and no reader woken.
RingBounds ==
    /\ Minus(w, r) <= Minus(e, r)
    /\ Minus(e, r) <= INPUT_BUF
    /\ Minus(e, r) = INPUT_BUF => w = e

\* The ring implements the line discipline: erasing never reaches committed
\* characters, and these are read once each and in the order typed, by whichever
\* reader comes.
Seg(a, b) == [k \in 1 .. Minus(b, a) |-> At(Plus(a, k - 1))]
T == INSTANCE Tty WITH line <- Seg(w, e), ready <- Seg(r, w), Size <- INPUT_BUF
ImplementsTty == T!TtySpec

\* console.c:287-291: a ^D leaves the ring only with a call that returns 0 bytes,
\* and such a result, of a reader that asked for some and is not killed, has
\* used up a ^D.
ReadReturns(p) == Reading(p) /\ pc'[p] = "relock"
EofIsZeroBytes ==
    [][/\ r' # r /\ At(r) = Eof
            => \E p \in Procs : ReadReturns(p) /\ n'[p] = target[p]
       /\ \A p \in Procs :
            ReadReturns(p) /\ n'[p] = target[p] /\ ~killed[p]
                => At(r) = Eof /\ r' = Plus(r, 1)]_vars

\* A reader that waits for input that may never come keeps nobody from the
\* console: whoever holds the inode, which fileread() and filewrite() lock, waits
\* neither for input nor for cons.lock.
InodeHolderRuns ==
    ilk # Nobody => pc[ilk] \notin {"acquire", "tosleep", "asleep"}

\* The ring and its indices are well formed.
RingSound == TypeOK /\ RingBounds

\* Waiting for input neither misses any nor stands in anybody's way.
WaitSound == SleeperHasReason /\ InodeHolderRuns
=============================================================================
