----------------------------- MODULE SlackIngress -----------------------------
(***************************************************************************)
(* internal/slack/adapter.go, ingress: Run's event loop takes one Socket    *)
(* Mode envelope at a time, filters it, waits for the conversation service  *)
(* to make it durable and acknowledges it; what is not acknowledged is      *)
(* delivered again.  The process may stop or crash between any two steps.   *)
(*                                                                          *)
(* Slack and the Socket Mode client are external: an envelope is repeated   *)
(* until its acknowledgement arrives, and waits in the client's channel.    *)
(* Slack limits its retries; here it does not stop before a message was     *)
(* acknowledged.                                                            *)
(***************************************************************************)
EXTENDS Integers, SequencesExt

CONSTANTS
    SlackMsgs,        \* messages and mentions in the workspace
    NoSlackMsg,       \* no message
    Users,
    Channels,
    AllowedUsers,
    AllowedChannels,
    SlackAbout,       \* message -> [user, channel, thread, dm, mentions, plain]: plain
                      \* when it is a new human text of this team, thread when it replies
    MaxCopies,        \* bound: envelopes of one message in the channel
    MaxSlackFaults    \* bound: crashes, shutdowns, failed writes, lost acks

ASSUME SlackAssumption ==
    /\ NoSlackMsg \notin SlackMsgs
    /\ SlackAbout \in [SlackMsgs -> [user : Users, channel : Channels, thread : SlackMsgs \cup {NoSlackMsg},
                           dm : BOOLEAN, mentions : BOOLEAN, plain : BOOLEAN]]

VARIABLES
    posted,        \* messages that users have sent
    events,        \* the client's event channel
    eventLoop,     \* the event loop: [pc, msg]
    refusing,      \* Service.closing
    slackItems,    \* inbox rows: the messages recorded
    acked,         \* acknowledgements that Slack received
    slackNotices,  \* message -> notices queued for it
    slackFaults

slackVars == <<posted, events, eventLoop, refusing, slackItems, acked, slackNotices, slackFaults>>
durable == <<posted, slackItems, acked>>

LoopIdle == [pc |-> "idle", msg |-> NoSlackMsg]

-----------------------------------------------------------------------------
(* validate: who may talk to the bot, and where.                            *)
SlackRunnable ==
    {m \in SlackMsgs : /\ SlackAbout[m].plain /\ SlackAbout[m].user \in AllowedUsers
                  /\ \/ SlackAbout[m].dm
                     \/ SlackAbout[m].channel \in AllowedChannels /\ SlackAbout[m].mentions}

(* A direct message belongs to its actor; a mention to its thread, or it is *)
(* the root of a new one.                                                   *)
RouteOf(m) ==
    LET a == SlackAbout[m]
    IN  IF a.dm
        THEN [channel |-> a.channel, root |-> NoSlackMsg, actor |-> a.user]
        ELSE [channel |-> a.channel, actor |-> "shared",
              root |-> IF a.thread = NoSlackMsg THEN m ELSE a.thread]

SlackFault == slackFaults < MaxSlackFaults /\ slackFaults' = slackFaults + 1
LoopAt(pc) == eventLoop' = [eventLoop EXCEPT !.pc = pc]

-----------------------------------------------------------------------------
Post(m) ==
    /\ m \notin posted
    /\ posted' = posted \cup {m}
    /\ UNCHANGED <<events, eventLoop, refusing, slackItems, acked, slackNotices, slackFaults>>

Copies(m) == Len(SelectSeq(events, LAMBDA x : x = m))

(* Delivery and redelivery, until the acknowledgement arrives.              *)
Offer(m) ==
    /\ m \in posted \ acked /\ Copies(m) < MaxCopies
    /\ events' = Append(events, m)
    /\ UNCHANGED <<durable, eventLoop, refusing, slackNotices, slackFaults>>

(* An envelope is taken; one that is filtered out only has to be            *)
(* acknowledged.                                                            *)
HandleEvent ==
    /\ eventLoop.pc = "idle" /\ events # <<>>
    /\ events' = Tail(events)
    /\ LET m == Head(events)
       IN  eventLoop' = [pc |-> IF m \in SlackRunnable THEN "check" ELSE "ack", msg |-> m]
    /\ UNCHANGED <<durable, refusing, slackNotices, slackFaults>>

(* Faulty: refused input is acknowledged.                                   *)
RefuseAndAck ==
    /\ eventLoop.pc = "check"
    /\ LoopAt(IF refusing THEN "ack" ELSE "commit")
    /\ UNCHANGED <<durable, events, refusing, slackNotices, slackFaults>>

(* Ingest refuses input while the service shuts down: no acknowledgement.   *)
CheckServing ==
    /\ eventLoop.pc = "check"
    /\ IF refusing THEN eventLoop' = LoopIdle ELSE LoopAt("commit")
    /\ UNCHANGED <<durable, events, refusing, slackNotices, slackFaults>>

(* The transaction of Ingest; a duplicate changes nothing and has no notice. *)
Commit ==
    /\ eventLoop.pc = "commit"
    /\ slackItems' = slackItems \cup {eventLoop.msg}
    /\ LoopAt(IF eventLoop.msg \in slackItems THEN "ack" ELSE "notify")
    /\ UNCHANGED <<posted, acked, events, refusing, slackNotices, slackFaults>>

(* Faulty: the envelope of a message that could not be stored is            *)
(* acknowledged all the same.                                               *)
AckAnyway ==
    /\ eventLoop.pc = "commit" /\ SlackFault
    /\ LoopAt("ack")
    /\ UNCHANGED <<durable, events, refusing, slackNotices>>

(* The deadline passes or the write fails: no acknowledgement.              *)
CommitFails ==
    /\ eventLoop.pc = "commit" /\ SlackFault
    /\ eventLoop' = LoopIdle
    /\ UNCHANGED <<durable, events, refusing, slackNotices>>

(* Whether there is a notice depends on the outcome and on the queue.       *)
SlackNotify ==
    /\ eventLoop.pc = "notify"
    /\ \/ slackNotices' = [slackNotices EXCEPT ![eventLoop.msg] = @ + 1]
       \/ UNCHANGED slackNotices
    /\ LoopAt("ack")
    /\ UNCHANGED <<durable, events, refusing, slackFaults>>

Ack ==
    /\ eventLoop.pc = "ack"
    /\ acked' = acked \cup {eventLoop.msg}
    /\ eventLoop' = LoopIdle
    /\ UNCHANGED <<posted, slackItems, events, refusing, slackNotices, slackFaults>>

AckLost ==
    /\ eventLoop.pc = "ack" /\ SlackFault
    /\ eventLoop' = LoopIdle
    /\ UNCHANGED <<durable, events, refusing, slackNotices>>

Handle == HandleEvent \/ CheckServing \/ Commit \/ SlackNotify \/ Ack

-----------------------------------------------------------------------------
BeginShutdown ==
    /\ ~refusing /\ SlackFault
    /\ refusing' = TRUE
    /\ UNCHANGED <<durable, events, eventLoop, slackNotices>>

(* The process is gone, with the envelopes it held, and another one runs.   *)
NewProcess ==
    /\ eventLoop' = LoopIdle /\ events' = <<>> /\ refusing' = FALSE
    /\ UNCHANGED <<durable, slackNotices>>

Restart == refusing /\ NewProcess /\ UNCHANGED slackFaults
SlackCrash == NewProcess /\ SlackFault

SlackInit ==
    /\ posted = {} /\ events = <<>> /\ eventLoop = LoopIdle /\ refusing = FALSE
    /\ slackItems = {} /\ acked = {} /\ slackFaults = 0
    /\ slackNotices = [m \in SlackMsgs |-> 0]

SlackNext ==
    \/ Handle \/ CommitFails \/ AckLost
    \/ BeginShutdown \/ Restart \/ SlackCrash
    \/ \E m \in SlackMsgs : Post(m) \/ Offer(m)

SlackSpec == SlackInit /\ [][SlackNext]_slackVars

(* The loop runs on, a service that shuts down is started again, and Slack  *)
(* delivers again what was not acknowledged.                                *)
FairSlackSpec ==
    /\ SlackSpec /\ WF_slackVars(Handle) /\ WF_slackVars(Restart)
    /\ \A m \in SlackMsgs : WF_slackVars(Offer(m))

-----------------------------------------------------------------------------
(* The adapter keeps the promise of Intake, with the route that validate    *)
(* finds for each message.                                                  *)
SlackPromise == INSTANCE Intake WITH
    Msgs <- SlackMsgs, Runnable <- SlackRunnable, notices <- slackNotices,
    Routes <- {RouteOf(m) : m \in SlackRunnable},
    recorded <- {<<m, RouteOf(m)>> : m \in slackItems},
    settled <- acked

(* However often an event is delivered, and wherever the process stops, a   *)
(* message is recorded once, told about once and acknowledged only when     *)
(* durable ("acknowledges every transport envelope only after the runnable  *)
(* input is durably stored", slack/adapter.go).                             *)
SlackKeepsPromise == SlackPromise!Spec

(* A message to be run is recorded in the end, across failed writes, lost   *)
(* acknowledgements, shutdowns and crashes.                                 *)
MessagesRecorded ==
    \A m \in SlackRunnable : (m \in posted) ~> (m \in slackItems)
=============================================================================
