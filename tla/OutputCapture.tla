--------------------------- MODULE OutputCapture ---------------------------
(***************************************************************************)
(* One command between the host and its execution row: SSHCommandRunner     *)
(* reads what the channel holds, decodes it slice by slice, hands it to     *)
(* append_command_output_chunk, which keeps what fits the limit, and ends   *)
(* with the exit status, the deadline or an error, which                    *)
(* complete_command_execution turns into the status of the execution.       *)
(*                                                                          *)
(* Output is made of one-byte characters and of two-byte ones, of which a   *)
(* slice may hold only the head or the tail.  stdout and stderr, which      *)
(* share the limit, are one stream here; a slice is SliceBytes, not 4096.   *)
(***************************************************************************)
EXTENDS Naturals, Sequences, FiniteSetsExt

CONSTANTS
    SliceBytes,   \* SSH_READ_SIZE
    Limit,        \* output_limit_bytes of the execution
    WindowBytes   \* what the channel holds before the host has to wait

ASSUME CaptureAssumption ==
    /\ SliceBytes \in Nat \ {0}
    /\ Limit \in Nat
    /\ WindowBytes \in Nat

Bytes == {"plain", "head", "tail"}

Width(character) ==
    CASE character = "plain" -> 1 [] character = "wide" -> 2
      [] character = "replacement" -> 3

Size(text) ==
    LET sum[n \in 0 .. Len(text)] ==
            IF n = 0 THEN 0 ELSE sum[n - 1] + Width(text[n])
    IN  sum[Len(text)]

VARIABLES
    host,       \* "off", "writing", "silent", "exited" or "lost"
    exitCode,   \* what the channel knows of it: "none", "ok", "bad", "-1"
    channel,    \* bytes that have arrived and were not read
    owed,       \* how many of them arrived before the exit status
    late,       \* the deadline has passed
    pc,         \* "connect", "drain", "check", "drainLast", "result", "done"
    result,     \* CommandExecutionResult: exit code, timed out, error
    stored,     \* bytes of sanitized_stdout and sanitized_stderr
    truncated,  \* output_truncated
    dropped,    \* history: a character that was read is not stored
    status      \* of the execution

vars == <<host, exitCode, channel, owed, late, pc, result, stored, truncated,
          dropped, status>>

remote == <<host, exitCode, channel, owed>>
row == <<stored, truncated, dropped>>

NoResult == [exit |-> "none", timedOut |-> FALSE, error |-> FALSE]

Init ==
    /\ host = "off"
    /\ exitCode = "none"
    /\ channel = <<>>
    /\ owed = 0
    /\ late = FALSE
    /\ pc = "connect"
    /\ result = NoResult
    /\ stored = 0
    /\ truncated = FALSE
    /\ dropped = FALSE
    /\ status = "running"
-----------------------------------------------------------------------------
(* The host and the channel.                                                *)

\* Something the command started may write after it has exited.
Write ==
    /\ host \in {"writing", "exited"}
    /\ Len(channel) < WindowBytes
    /\ \E byte \in Bytes : channel' = Append(channel, byte)
    /\ owed' = IF host = "writing" THEN owed + 1 ELSE owed
    /\ UNCHANGED <<host, exitCode, late, pc, result, row, status>>

FallSilent ==
    /\ host = "writing"
    /\ host' = "silent"
    /\ UNCHANGED <<exitCode, channel, owed, late, pc, result, row, status>>

\* The exit status follows the output; a channel that breaks reports -1.
Exit ==
    /\ host \in {"writing", "silent"}
    /\ \/ host' = "exited" /\ exitCode' \in {"ok", "bad"}
       \/ host' = "lost" /\ exitCode' = "-1"
    /\ UNCHANGED <<channel, owed, late, pc, result, row, status>>

DeadlinePasses ==
    /\ ~late
    /\ late' = TRUE
    /\ UNCHANGED <<remote, pc, result, row, status>>
-----------------------------------------------------------------------------
(* append_command_output_chunk.                                             *)

\* What the byte at i adds to the text: a head and its tail are one character
\* if the slice holds both.
Character(slice, i) ==
    CASE slice[i] = "plain" -> <<"plain">>
      [] slice[i] = "head" ->
            IF i < Len(slice) /\ slice[i + 1] = "tail"
            THEN <<"wide">> ELSE <<"replacement">>
      [] slice[i] = "tail" ->
            IF i > 1 /\ slice[i - 1] = "head" THEN <<>> ELSE <<"replacement">>

\* chunk.decode("utf-8", errors="replace")
Decoded(slice) ==
    LET text[n \in 0 .. Len(slice)] ==
            IF n = 0 THEN <<>> ELSE text[n - 1] \o Character(slice, n)
    IN  text[Len(slice)]

\* Mutant: the limit counts characters.
FittingCharacters(text, room) == SubSeq(text, 1, Min({Len(text), room}))

\* _truncate_to_bytes: whole characters only.
Fitting(text, room) ==
    SubSeq(text, 1, Max({n \in 0 .. Len(text) : Size(SubSeq(text, 1, n)) <= room}))

\* A row that is full, or has no room for the first character, only gets its
\* flag, one that takes a part gets both; the next chunk is tried again.
Store(text) ==
    LET kept == Fitting(text, Limit - stored)
    IN  /\ stored' = stored + Size(kept)
        /\ truncated' = (truncated \/ kept # text)
        /\ dropped' = (dropped \/ kept # text)
-----------------------------------------------------------------------------
(* SSHCommandRunner.execute.                                                *)

EndWith(outcome) ==
    /\ pc' = "result"
    /\ result' = outcome

Failure == [NoResult EXCEPT !.error = TRUE]

\* Keys, known_hosts, connection and exec_command; the answer to the latter may
\* be lost when the host has already begun.
Connect ==
    /\ pc = "connect"
    /\ \/ pc' = "drain" /\ host' = "writing" /\ UNCHANGED result
       \/ EndWith(Failure) /\ host' \in {"off", "lost"}
    /\ UNCHANGED <<exitCode, channel, owed, late, row, status>>

\* _drain_available, one slice.  on_chunk may raise: the loop is left.
Read ==
    LET bytes == Min({SliceBytes, Len(channel)})
    IN  /\ pc \in {"drain", "drainLast"}
        /\ channel # <<>>
        /\ channel' = SubSeq(channel, bytes + 1, Len(channel))
        /\ owed' = Max({owed, bytes}) - bytes
        /\ \/ Store(Decoded(SubSeq(channel, 1, bytes))) /\ UNCHANGED <<pc, result>>
           \/ EndWith(Failure) /\ UNCHANGED row
        /\ UNCHANGED <<host, exitCode, late, status>>

\* Mutant: an exit status ends the loop at once.
EndOnExit ==
    /\ pc = "check"
    /\ exitCode # "none"
    /\ EndWith([NoResult EXCEPT !.exit = exitCode])
    /\ UNCHANGED <<remote, late, row, status>>

SeeExit ==
    /\ pc = "check"
    /\ exitCode # "none"
    /\ pc' = "drainLast"
    /\ UNCHANGED <<remote, late, result, row, status>>

Drained ==
    /\ channel = <<>>
    /\ \/ pc = "drain" /\ pc' = "check" /\ UNCHANGED result
       \/ pc = "drainLast" /\ EndWith([NoResult EXCEPT !.exit = exitCode])
    /\ UNCHANGED <<remote, late, row, status>>

\* Mutant: the deadline is not looked at.
SleepOn ==
    /\ pc = "check"
    /\ exitCode = "none"
    /\ pc' = "drain"
    /\ UNCHANGED <<remote, late, result, row, status>>

\* The deadline is looked at between two drains only.
TimeOutOrSleep ==
    /\ pc = "check"
    /\ exitCode = "none"
    /\ \/ late /\ EndWith([NoResult EXCEPT !.timedOut = TRUE, !.error = TRUE])
       \/ ~late /\ pc' = "drain" /\ UNCHANGED result
    /\ UNCHANGED <<remote, late, row, status>>

\* _final_execution_status and complete_command_execution.
Complete ==
    /\ pc = "result"
    /\ pc' = "done"
    /\ status' = CASE result.timedOut -> "timed_out"
                   [] ~result.timedOut /\ (result.error \/ result.exit # "ok") -> "failed"
                   [] OTHER -> "completed"
    /\ UNCHANGED <<remote, late, result, row>>

Runner == Connect \/ Read \/ SeeExit \/ Drained \/ TimeOutOrSleep \/ Complete

Next == Write \/ FallSilent \/ Exit \/ DeadlinePasses \/ Runner

Spec == Init /\ [][Next]_vars

\* The worker's thread runs on and the clock goes on; nothing is asked of the
\* host, which may write, wait or exit as it likes.
FairSpec == Spec /\ WF_vars(Runner) /\ WF_vars(DeadlinePasses)
-----------------------------------------------------------------------------
(* Properties.                                                              *)

TypeOK ==
    /\ host \in {"off", "writing", "silent", "exited", "lost"}
    /\ exitCode \in {"none", "ok", "bad", "-1"}
    /\ channel \in Seq(Bytes)
    /\ owed \in 0 .. Len(channel)
    /\ late \in BOOLEAN
    /\ pc \in {"connect", "drain", "check", "drainLast", "result", "done"}
    /\ result \in [exit : {"none", "ok", "bad", "-1"}, timedOut : BOOLEAN, error : BOOLEAN]
    /\ stored \in Nat
    /\ truncated \in BOOLEAN
    /\ dropped \in BOOLEAN
    /\ status \in {"running", "completed", "failed", "timed_out"}

\* The row never outgrows its limit, whatever slicing and replacement make of
\* the bytes, nothing that was read is missing without the flag, and the flag
\* is set only when less than a replacement character fits.
RowIsAccountable ==
    /\ stored <= Limit
    /\ dropped => truncated
    /\ truncated => Limit - stored < Width("replacement")

\* A command recorded as completed has exited with 0, and all it had written
\* by then was read: output between the last read and the exit is not left.
CompletedIsWhole ==
    status = "completed" => host = "exited" /\ exitCode = "ok" /\ owed = 0

\* A command whose host stops writing gets its result: by its exit, by the
\* deadline, or by an error of the channel or of the store.
QuietCommandEnds ==
    <>[][~Write]_vars => <>(pc = "done")
=============================================================================
