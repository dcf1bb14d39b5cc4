------------------------------- MODULE MCParts -------------------------------
(***************************************************************************)
(* The parts of the process that share no state in these models, in one     *)
(* run: which of them moves is chosen at the start, and the others stay as  *)
(* they began.  Nothing one of them does depends on another, so this shows  *)
(* as much about each as their interleaving would.                          *)
(***************************************************************************)
EXTENDS Scheduler, Throttle, Shutdown, StateDir, Chunker, SlackIngress, DiscordIngress

VARIABLE part

Parts == {"scheduler", "throttle", "shutdown", "directory", "chunker", "slack", "discord"}

partVars == <<part, schedVars, throttleVars, shutVars, dirVars, chunkVars, slackVars, discordVars>>

Init ==
    /\ part \in Parts
    /\ SchedInit /\ ThrottleInit /\ ShutInit /\ DirInit /\ ChunkInit /\ SlackInit /\ DiscordInit
    /\ part # "scheduler" => work = {}
    /\ part # "directory" => version = Absent /\ agent = "new"

Next ==
    \/ /\ part = "scheduler" /\ SchedNext
       /\ UNCHANGED <<part, throttleVars, shutVars, dirVars, chunkVars, slackVars, discordVars>>
    \/ /\ part = "throttle" /\ ThrottleNext
       /\ UNCHANGED <<part, schedVars, shutVars, dirVars, chunkVars, slackVars, discordVars>>
    \/ /\ part = "shutdown" /\ ShutNext
       /\ UNCHANGED <<part, schedVars, throttleVars, dirVars, chunkVars, slackVars, discordVars>>
    \/ /\ part = "directory" /\ DirNext
       /\ UNCHANGED <<part, schedVars, throttleVars, shutVars, chunkVars, slackVars, discordVars>>
    \/ /\ part = "chunker" /\ ChunkNext
       /\ UNCHANGED <<part, schedVars, throttleVars, shutVars, dirVars, slackVars, discordVars>>
    \/ /\ part = "slack" /\ SlackNext
       /\ UNCHANGED <<part, schedVars, throttleVars, shutVars, dirVars, chunkVars, discordVars>>
    \/ /\ part = "discord" /\ DiscordNext
       /\ UNCHANGED <<part, schedVars, throttleVars, shutVars, dirVars, chunkVars, slackVars>>

(* The fairness of FairSchedSpec, FairShutSpec and FairSlackSpec, when it   *)
(* is that part that moves.                                                 *)
Spec ==
    /\ Init /\ [][Next]_partVars
    /\ WF_schedVars(part = "scheduler" /\ SchedulerStep)
    /\ \A r \in Routes : /\ WF_schedVars(part = "scheduler" /\ RunnerStep(r))
                         /\ WF_schedVars(part = "scheduler" /\ Unpark(r))
                         /\ WF_schedVars(part = "scheduler" /\ ParkExpires(r))
    /\ WF_shutVars(part = "shutdown" /\ Stop)
    /\ WF_shutVars(part = "shutdown" /\ BeginScan)
    /\ WF_shutVars(part = "shutdown" /\ QueryRoutes)
    /\ WF_shutVars(part = "shutdown" /\ EndScan)
    /\ \A r \in Conversations : /\ WF_shutVars(part = "shutdown" /\ Runner(r))
                                /\ WF_shutVars(part = "shutdown" /\ Preview(r))
    /\ WF_slackVars(part = "slack" /\ Handle)
    /\ WF_slackVars(part = "slack" /\ Restart)
    /\ \A m \in SlackMsgs : WF_slackVars(part = "slack" /\ Offer(m))

-----------------------------------------------------------------------------
(* Lines around every limit of a budget: short and long ones, fences that   *)
(* can and that cannot be opened again as they are, and a last line without *)
(* an end.                                                                  *)
Line(len, fences) == [len |-> len, fences |-> fences, nl |-> TRUE]

WholeLines == {Line(n, 0) : n \in {2, Budget \div 2, Budget, Budget + 3}}
FenceLines == {Line(n, 1) : n \in {4, maxFence + 1, Budget - 12, Budget + 1}}
InlineFence == Line(8, 2)
LastLine == [len |-> 3, fences |-> 1, nl |-> FALSE]

MCLines == WholeLines \cup FenceLines \cup {InlineFence, LastLine}

-----------------------------------------------------------------------------
(* On Slack a mention that opens a thread, a reply without a mention, a     *)
(* direct message.                                                          *)
CONSTANTS root, chatter, direct, alice, public, dm

MCSlackAbout ==
    [m \in SlackMsgs |->
        [user     |-> alice,
         channel  |-> IF m = direct THEN dm ELSE public,
         thread   |-> IF m = chatter THEN root ELSE NoSlackMsg,
         dm       |-> m = direct,
         mentions |-> m # chatter,
         plain    |-> TRUE]]

(* On Discord a mention in a text channel, one in a thread, a direct        *)
(* message, and one that is not for the bot.                                *)
CONSTANTS inside, home, t1, t2, h1, h2, notices, turn, p1, p2, o1

MCDiscordAbout ==
    [m \in DiscordMsgs |-> [eligible |-> TRUE, allowed |-> m # direct,
                            mentions |-> m \in {root, inside},
                            place    |-> IF m = direct THEN "dm"
                                         ELSE IF m = inside THEN "thread" ELSE "text"]]

MCHomeOf ==
    [m \in {n \in DiscordMsgs : MCDiscordAbout[n].place \in {"dm", "thread"}} |->
        IF m = direct THEN dm ELSE home]
=============================================================================
