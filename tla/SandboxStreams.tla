--------------------------- MODULE SandboxStreams ---------------------------
(***************************************************************************)
(* StreamOutput of the three sandbox managers.  local and docker read the  *)
(* two pipes of a command with a goroutine each and close the channel from *)
(* a third; e2b reads the body of one reply and closes after it.  A line   *)
(* is only counted: how many are still to come, wait in a pipe, or wait in *)
(* the channel.                                                            *)
(***************************************************************************)
EXTENDS Naturals

CONSTANTS
    Lines,       \* bound: lines a command writes on each pipe
    PipeSize,    \* lines a pipe holds before its writer blocks
    ChannelSize  \* capacity of the channel (128 in the code)

ASSUME StreamAssumption == Lines \in Nat /\ PipeSize \in Nat \ {0} /\ ChannelSize \in Nat \ {0}

VARIABLES
    remote,    \* the manager is e2b
    command,   \* "running", "zero", "nonzero", "killed", or "cut" (its reply broke off)
    todo,      \* lines the command will still write, per pipe
    pipe,      \* lines in the pipe
    reader,    \* "scanning", "sending", "apologising" (a read error) or "done"
    execLive,  \* the context of the command is not yet done
    closer,    \* "waiting", "reporting", "insisting" (with context.Background()) or "closed"
    channel,   \* lines in the channel
    consumer   \* "reading" or "gone"

streamVars == <<remote, command, todo, pipe, reader, execLive, closer, channel, consumer>>

Pipes == IF remote THEN {"body"} ELSE {"stdout", "stderr"}

StreamInit ==
    /\ remote \in BOOLEAN
    /\ command = "running"
    /\ todo \in [Pipes -> {0, Lines}]
    /\ pipe = [s \in Pipes |-> 0]
    /\ reader = [s \in Pipes |-> "scanning"]
    /\ execLive = TRUE /\ closer = "waiting" /\ channel = 0 /\ consumer = "reading"

(* A stream that is over: where nothing more happens.                      *)
StreamOver ==
    /\ remote = TRUE /\ command = "zero" /\ execLive = FALSE /\ closer = "closed"
    /\ todo = [s \in Pipes |-> 0] /\ pipe = todo /\ reader = [s \in Pipes |-> "done"]
    /\ channel = 0 /\ consumer = "gone"

-----------------------------------------------------------------------------
(* External: the command writes, blocks on a full pipe, ends by itself, or *)
(* is killed when its context is done.  The connection to e2b breaks off   *)
(* when its context is done or the network fails.                          *)
CommandWrites(s) ==
    /\ command = "running" /\ todo[s] > 0 /\ pipe[s] < PipeSize
    /\ todo' = [todo EXCEPT ![s] = @ - 1]
    /\ pipe' = [pipe EXCEPT ![s] = @ + 1]
    /\ UNCHANGED <<remote, command, reader, execLive, closer, channel, consumer>>

CommandEnds(how) ==
    /\ command = "running"
    /\ \/ how \in {"zero", "nonzero"} /\ \A s \in Pipes : todo[s] = 0
       \/ how = "killed" /\ ~remote /\ ~execLive
       \/ how = "cut" /\ remote
    /\ command' = how
    /\ UNCHANGED <<remote, todo, pipe, reader, execLive, closer, channel, consumer>>

(* The expiry of the sandbox, or the caller's context.                     *)
StreamDeadline ==
    /\ execLive /\ closer # "closed"
    /\ execLive' = FALSE
    /\ UNCHANGED <<remote, command, todo, pipe, reader, closer, channel, consumer>>

ConsumerReads ==
    /\ consumer = "reading" /\ channel > 0
    /\ channel' = channel - 1
    /\ UNCHANGED <<remote, command, todo, pipe, reader, execLive, closer, consumer>>

ConsumerLeaves ==
    /\ consumer = "reading" /\ consumer' = "gone"
    /\ UNCHANGED <<remote, command, todo, pipe, reader, execLive, closer, channel>>

-----------------------------------------------------------------------------
(* sendLog: the line goes into the channel, or the context is done; sent   *)
(* is what the caller sees.                                                *)
sendLogWaits(sent) == sent /\ channel < ChannelSize /\ channel' = channel + 1

sendLog(sent) ==
    \/ sent /\ channel < ChannelSize /\ channel' = channel + 1
    \/ ~sent /\ ~execLive /\ UNCHANGED channel

ReaderGoes(s, to) == reader' = [reader EXCEPT ![s] = to]

(* A line comes out of the pipe.                                           *)
ReaderScans(s) ==
    /\ reader[s] = "scanning" /\ pipe[s] > 0
    /\ pipe' = [pipe EXCEPT ![s] = @ - 1]
    /\ ReaderGoes(s, "sending")
    /\ UNCHANGED <<remote, command, todo, execLive, closer, channel, consumer>>

(* A line longer than the buffer of the scanner: it stops for good, and    *)
(* the command may block on a pipe that no one reads any more.             *)
ReaderChokes(s) ==
    /\ reader[s] = "scanning" /\ pipe[s] > 0
    /\ ReaderGoes(s, IF remote THEN "done" ELSE "apologising")
    /\ UNCHANGED <<remote, command, todo, pipe, execLive, closer, channel, consumer>>

ReaderSends(s) ==
    /\ reader[s] = "sending"
    /\ \/ sendLog(TRUE) /\ ReaderGoes(s, "scanning")
       \/ sendLog(FALSE) /\ ReaderGoes(s, "done")
    /\ UNCHANGED <<remote, command, todo, pipe, execLive, closer, consumer>>

ReaderApologises(s) ==
    /\ reader[s] = "apologising"
    /\ \E sent \in BOOLEAN : sendLog(sent)
    /\ ReaderGoes(s, "done")
    /\ UNCHANGED <<remote, command, todo, pipe, execLive, closer, consumer>>

(* The end of the pipe: the command, the only writer, has ended.           *)
ReaderEnds(s) ==
    /\ reader[s] = "scanning" /\ pipe[s] = 0 /\ command # "running"
    /\ ReaderGoes(s, "done")
    /\ UNCHANGED <<remote, command, todo, pipe, execLive, closer, channel, consumer>>

-----------------------------------------------------------------------------
(* wg.Wait; then cmd.Wait, or nothing for e2b, and the line that tells how *)
(* it ended.  Only an interrupted command is reported with a context of    *)
(* its own: a command that exited although its context was done, a reply   *)
(* that broke off after it was.  e2b may also return without a report.     *)
Overrun == ~execLive /\ (IF remote THEN TRUE ELSE command = "zero")

StreamReports(to) ==
    /\ closer = "waiting"
    /\ remote \/ command # "running"
    /\ \/ to = "reporting"
       \/ to = "insisting" /\ Overrun
       \/ to = "closed" /\ remote /\ ~execLive
    /\ closer' = to
    /\ UNCHANGED <<remote, command, todo, pipe, reader, execLive, channel, consumer>>

(* cmd.Wait is taken for the end of both readers.                          *)
CloserWaitsForCommand(to) == StreamReports(to)

CloserWaits(to) ==
    /\ \A s \in Pipes : reader[s] = "done"
    /\ StreamReports(to)

(* The report, then the deferred cancel and close.                         *)
CloserCloses ==
    /\ \/ closer = "reporting" /\ \E sent \in BOOLEAN : sendLog(sent)
       \/ closer = "insisting" /\ channel < ChannelSize /\ channel' = channel + 1
    /\ closer' = "closed" /\ execLive' = FALSE
    /\ UNCHANGED <<remote, command, todo, pipe, reader, consumer>>

StreamNext ==
    \/ \E s \in Pipes :
         \/ CommandWrites(s)
         \/ ReaderScans(s) \/ ReaderChokes(s) \/ ReaderSends(s)
         \/ ReaderApologises(s) \/ ReaderEnds(s)
    \/ \E how \in {"zero", "nonzero", "killed", "cut"} : CommandEnds(how)
    \/ \E to \in {"reporting", "insisting", "closed"} : CloserWaits(to)
    \/ CloserCloses
    \/ StreamDeadline
    \/ ConsumerReads \/ ConsumerLeaves

StreamSpec == StreamInit /\ [][StreamNext]_streamVars

(* Go schedules its goroutines; a sandbox has an expiry time, at which the *)
(* command is killed (nothing it started holds its pipes open); a consumer *)
(* that has not left takes the next line.                                  *)
ReaderStep(s) == ReaderScans(s) \/ ReaderSends(s) \/ ReaderApologises(s) \/ ReaderEnds(s)

StreamFairness ==
    /\ WF_streamVars(\E s \in Pipes : ReaderStep(s))
    /\ WF_streamVars(\E to \in {"reporting", "insisting", "closed"} : CloserWaits(to))
    /\ WF_streamVars(CloserCloses)
    /\ WF_streamVars(StreamDeadline)
    /\ WF_streamVars(~execLive /\ \E how \in {"killed", "cut"} : CommandEnds(how))
    /\ WF_streamVars(ConsumerReads)

-----------------------------------------------------------------------------
(* No goroutine is left that could send on the closed channel, which would *)
(* panic and end the worker process.                                       *)
NoSendAfterClose ==
    closer = "closed" => \A s \in Pipes : reader[s] = "done"

(* The channel is closed in the end, also when its consumer has gone and   *)
(* it is full, and also when the command blocks on a pipe whose reader has *)
(* stopped; unless the consumer has gone and the report of an interrupted  *)
(* command, which watches no context, waits for it.                        *)
StreamCloses ==
    closer = "waiting" ~> closer = "closed" \/ (closer = "insisting" /\ consumer = "gone")
=============================================================================
