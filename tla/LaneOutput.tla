------------------------------ MODULE LaneOutput ------------------------------
(***************************************************************************)
(* What a harness prints, on its way to the log.                           *)
(*                                                                         *)
(* A lane's harness prints lines (of JSON) to its terminal, in pieces.  A  *)
(* thread reads the terminal and hands what it read to the event loop; the *)
(* lane's pump puts lines together and emits one event for each, waiting   *)
(* for the log in between.  A line that outgrows the pump's buffer is      *)
(* released as it is.  The pump is created when the lane starts and reads  *)
(* the terminal of that time: the supervisor, which restarts the harness   *)
(* on a new terminal, creates no other.                                    *)
(*                                                                         *)
(* Pieces are numbered as they are printed.                                *)
(***************************************************************************)
EXTENDS Naturals, Sequences

CONSTANTS
    MaxPieces,      \* bound on the pieces the first harness prints
    MaxBuffer,      \* max_buffer: pieces of a line the pump keeps
    TerminalSize    \* pieces a terminal holds that nobody has read

ASSUME OutputAssumption ==
    /\ MaxPieces \in Nat /\ MaxBuffer \in Nat /\ TerminalSize \in Nat \ {0}

VARIABLES
    harness,        \* the first harness: "up", or "dead"
    printed,        \* pieces it has printed
    lineEnds,       \* those that end a line
    terminal,       \* pieces printed and not read
    thread,         \* the reader thread: "reading", "asking", or "ended"
    halted,         \* the pump is gone: the thread is to end
    handed,         \* reads handed to the event loop
    rest,           \* the assembler's buffer: pieces of a line
    units,          \* pieces put together, not yet emitted
    pump,           \* "reading", "flushing" what is left, or "ended"
    logged,         \* units in the log, in order
    muted           \* why the pump ended early: "failed", "stopped", or "no"

outputVars == <<harness, printed, lineEnds, terminal, thread, halted, handed, rest, units,
                pump, logged, muted>>

(* The pieces there are.                                                   *)
Piece == 1..printed

-----------------------------------------------------------------------------
OutputInit ==
    /\ harness = "up" /\ printed = 0 /\ lineEnds = {} /\ terminal = <<>>
    /\ thread = "reading" /\ halted = FALSE /\ handed = <<>>
    /\ rest = <<>> /\ units = <<>> /\ pump = "reading" /\ logged = <<>>
    /\ muted = "no"

(* A harness whose terminal is full waits.                                 *)
PrintPiece(ends) ==
    /\ harness = "up" /\ printed < MaxPieces /\ Len(terminal) < TerminalSize
    /\ printed' = printed + 1
    /\ lineEnds' = IF ends THEN lineEnds \cup {printed + 1} ELSE lineEnds
    /\ terminal' = Append(terminal, printed + 1)
    /\ UNCHANGED <<harness, thread, halted, handed, rest, units, pump, logged, muted>>

(* It dies; another may be started, on a terminal that nobody reads.       *)
HarnessDies ==
    /\ harness = "up" /\ harness' = "dead"
    /\ UNCHANGED <<printed, lineEnds, terminal, thread, halted, handed, rest, units, pump,
                   logged, muted>>

-----------------------------------------------------------------------------
(* The thread reads what there is ...                                      *)
ReadTerminal(n) ==
    /\ thread = "reading" /\ n \in 1..Len(terminal)
    /\ thread' = "asking"
    /\ handed' = Append(handed, SubSeq(terminal, 1, n))
    /\ terminal' = SubSeq(terminal, n + 1, Len(terminal))
    /\ UNCHANGED <<harness, printed, lineEnds, halted, rest, units, pump, logged, muted>>

(* ... and asks whether it is to end before it reads on.                   *)
ReadOn ==
    /\ thread = "asking" /\ ~halted
    /\ thread' = "reading"
    /\ UNCHANGED <<harness, printed, lineEnds, terminal, halted, handed, rest, units,
                   pump, logged, muted>>

(* It is to end, or the harness is dead and all is read.  Its last word to *)
(* the loop is that there is no more.                                      *)
ThreadEnds ==
    /\ \/ thread = "asking" /\ halted
       \/ thread = "reading" /\ harness = "dead" /\ terminal = <<>>
    /\ thread' = "ended"
    /\ UNCHANGED <<harness, printed, lineEnds, terminal, halted, handed, rest, units,
                   pump, logged, muted>>

-----------------------------------------------------------------------------
(* _ChunkAssembler.feed: the pieces up to the last end of a line are       *)
(* units, and so is what follows if it is too much for the buffer.  No     *)
(* line is blank.                                                          *)
LastEnd(pieces) ==
    CHOOSE n \in 0..Len(pieces) :
        /\ n = 0 \/ pieces[n] \in lineEnds
        /\ \A m \in n + 1..Len(pieces) : pieces[m] \notin lineEnds

(* Mutant of the operator below: what follows a line's end is taken too.   *)
CompleteAll(pieces) == IF LastEnd(pieces) = 0 THEN 0 ELSE Len(pieces)

Complete(pieces) ==
    IF Len(pieces) - LastEnd(pieces) > MaxBuffer THEN Len(pieces) ELSE LastEnd(pieces)

(* The first of the units: up to the end of a line, or all there is.       *)
FirstUnit(pieces) ==
    CHOOSE n \in DOMAIN pieces :
        /\ pieces[n] \in lineEnds \/ n = Len(pieces)
        /\ \A m \in 1..n - 1 : pieces[m] \notin lineEnds

PumpReads == pump = "reading" /\ units = <<>>

TakeRead ==
    /\ PumpReads /\ handed # <<>>
    /\ LET pieces == rest \o Head(handed)
           done == Complete(pieces)
       IN  /\ units' = SubSeq(pieces, 1, done)
           /\ rest' = SubSeq(pieces, done + 1, Len(pieces))
    /\ handed' = Tail(handed)
    /\ UNCHANGED <<harness, printed, lineEnds, terminal, thread, halted, pump, logged,
                   muted>>

(* flush: at the end, a part of a line is a unit.                          *)
TakeEnd ==
    /\ PumpReads /\ handed = <<>> /\ thread = "ended"
    /\ units' = rest /\ rest' = <<>>
    /\ pump' = IF rest = <<>> THEN "ended" ELSE "flushing"
    /\ halted' = (rest = <<>>)
    /\ UNCHANGED <<harness, printed, lineEnds, terminal, thread, handed, logged, muted>>

EmitUnit ==
    /\ units # <<>>
    /\ logged' = Append(logged, SubSeq(units, 1, FirstUnit(units)))
    /\ units' = SubSeq(units, FirstUnit(units) + 1, Len(units))
    /\ pump' = IF pump = "flushing" THEN "ended" ELSE pump
    /\ halted' = (pump' = "ended")
    /\ UNCHANGED <<harness, printed, lineEnds, terminal, thread, handed, rest, muted>>

PumpEnds(why) ==
    /\ pump' = "ended" /\ halted' = TRUE /\ muted' = why
    /\ units' = <<>> /\ rest' = <<>>

(* An emit raises: the pump logs the error and ends, the harness goes on.  *)
EmitUnitFails ==
    /\ units # <<>>
    /\ PumpEnds("failed")
    /\ UNCHANGED <<harness, printed, lineEnds, terminal, thread, handed, logged>>

(* stop_lane: the pump is cancelled if it runs ...                         *)
CancelPump ==
    /\ muted # "stopped"
    /\ PumpEnds("stopped")
    /\ UNCHANGED <<harness, printed, lineEnds, terminal, thread, handed, logged>>

(* ... and a harness that runs is killed, its terminal closed.             *)
StopHarness ==
    /\ muted = "stopped" /\ harness = "up"
    /\ harness' = "dead" /\ terminal' = <<>>
    /\ UNCHANGED <<printed, lineEnds, thread, halted, handed, rest, units, pump, logged,
                   muted>>

OutputNext ==
    \/ \E ends \in BOOLEAN : PrintPiece(ends)
    \/ HarnessDies
    \/ \E n \in 1..TerminalSize : ReadTerminal(n)
    \/ ReadOn \/ ThreadEnds
    \/ TakeRead \/ TakeEnd
    \/ EmitUnit \/ EmitUnitFails \/ CancelPump \/ StopHarness

(* The thread runs, the loop runs what is ready, and an emit ends.  What   *)
(* a harness prints, and when it dies, nobody promises.                    *)
OutputProceeds ==
    \/ \E n \in 1..TerminalSize : ReadTerminal(n)
    \/ ReadOn \/ ThreadEnds \/ TakeRead \/ TakeEnd \/ EmitUnit \/ StopHarness

OutputSpec == OutputInit /\ [][OutputNext]_outputVars /\ WF_outputVars(OutputProceeds)

-----------------------------------------------------------------------------
OutputTypeOK ==
    /\ harness \in {"up", "dead"}
    /\ printed \in 0..MaxPieces /\ lineEnds \subseteq Piece
    /\ terminal \in Seq(Piece) /\ Len(terminal) <= TerminalSize
    /\ thread \in {"reading", "asking", "ended"} /\ halted \in BOOLEAN
    /\ handed \in Seq(Seq(Piece)) /\ logged \in Seq(Seq(Piece))
    /\ rest \in Seq(Piece) /\ units \in Seq(Piece) /\ Len(rest) <= MaxBuffer
    /\ pump \in {"reading", "flushing", "ended"} /\ muted \in {"no", "failed", "stopped"}

(* The piece that ends the first k units of the log.                       *)
LastOf(k) == IF k = 0 THEN 0 ELSE logged[k][Len(logged[k])]

(* However its reads cut the lines, whatever fails, dies or is stopped:    *)
(* the log is the beginning of what the harness printed, with nothing left *)
(* out, repeated or moved; no unit is of two lines; and a line is cut only *)
(* if the harness died over it, or if it outgrew the buffer                *)
(* (_iter_pty_text, _ChunkAssembler, _pump_output).                        *)
LoggedInOrder ==
    \A k \in DOMAIN logged :
        LET unit == logged[k]
            last == Len(unit)
        IN  /\ last > 0
            /\ \A n \in 1..last : unit[n] = LastOf(k - 1) + n
            /\ \A n \in 1..last - 1 : unit[n] \notin lineEnds
            /\ \/ unit[last] \in lineEnds
               \/ last > MaxBuffer
               \/ harness = "dead" /\ unit[last] = printed

(* What the harness printed is in the log in the end, and half a line too  *)
(* if it died over it; unless an emit failed or the lane was stopped: then *)
(* no more of it is, but once the harness is stopped nobody is left        *)
(* reading a closed terminal.                                              *)
PrintedIsHeard ==
    <>[](/\ muted = "no" =>
                \A n \in 1..printed :
                    n \in lineEnds \/ harness = "dead" => n <= LastOf(Len(logged))
         /\ muted = "stopped" => thread = "ended")
=============================================================================
