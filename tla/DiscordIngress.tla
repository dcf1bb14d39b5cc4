---------------------------- MODULE DiscordIngress ----------------------------
(***************************************************************************)
(* internal/discord/adapter.go, ingress, with the thread bindings of        *)
(* internal/state/conversations.go: every Gateway event is handled by a     *)
(* goroutine of its own, so copies of one message are handled side by side; *)
(* a mention in a text channel needs a thread, which is looked up, found on *)
(* the message, or created, and bound durably before the message is         *)
(* recorded.  Every call and every transaction is a step; calls may fail,   *)
(* also after they took effect, and the process may crash.                  *)
(*                                                                          *)
(* Discord is external: a message carries at most one thread at a time,     *)
(* starting one where it exists yields that one, and moderators may delete  *)
(* it.  An event that was not handled is not sent again on purpose, but a   *)
(* resumed session may replay it.                                           *)
(***************************************************************************)
EXTENDS Integers, FiniteSets

CONSTANTS
    DiscordMsgs,       \* messages
    DiscordAbout,      \* message -> [eligible, place, allowed, mentions]: eligible when it
                       \* is a new human text of a listed user, allowed when its guild
                       \* and its text channel are listed
    HomeOf,            \* message in a thread or a DM -> that channel
    Threads,           \* channels: threads and DMs
    NoThread,          \* no channel
    Handlers,          \* goroutines that handle events
    NoDiscordMsg,      \* no message
    MaxEvents,         \* bound: copies of an event that are handled
    MaxDiscordFaults,  \* bound: failed calls and writes, crashes
    MaxDeleted         \* bound: threads that moderators delete

ASSUME DiscordAssumption ==
    /\ NoDiscordMsg \notin DiscordMsgs /\ NoThread \notin Threads
    /\ DiscordAbout \in [DiscordMsgs -> [eligible : BOOLEAN, allowed : BOOLEAN, mentions : BOOLEAN,
                           place : {"dm", "thread", "text", "other"}]]
    /\ HomeOf \in [{m \in DiscordMsgs : DiscordAbout[m].place \in {"dm", "thread"}} -> Threads]

VARIABLES
    threadOf,        \* Discord: root message -> the thread it carries
    made,            \* Discord: threads ever created from a message
    handler,         \* goroutine -> [pc, msg, seen, thread]
    bindings,        \* thread_bindings: root message -> thread
    discordItems,    \* inbox rows: <<channel, message>>, the deduplication key
    discordNotices,  \* message -> notices queued for it
    handled,         \* message -> events received so far
    discordFaults

discord == <<threadOf, made>>
discordVars == <<discord, handler, bindings, discordItems, discordNotices, handled, discordFaults>>

(* eligible and resolveRoute: who may talk to the bot, and where.           *)
DiscordRunnable ==
    {m \in DiscordMsgs : /\ DiscordAbout[m].eligible
                  /\ \/ DiscordAbout[m].place = "dm"
                     \/ /\ DiscordAbout[m].place \in {"thread", "text"}
                        /\ DiscordAbout[m].allowed /\ DiscordAbout[m].mentions}

(* Mentions in a text channel: these need a thread.                         *)
Roots == {m \in DiscordRunnable : DiscordAbout[m].place = "text"}

HandlerIdle == [pc |-> "idle", msg |-> NoDiscordMsg, seen |-> NoThread, thread |-> NoThread]

(* Channels that exist from the start.                                      *)
Homes == {HomeOf[m] : m \in DOMAIN HomeOf}
Deleted == {t \in made : \A m \in Roots : threadOf[m] # t}

DiscordFault == discordFaults < MaxDiscordFaults /\ discordFaults' = discordFaults + 1

To(h, pc, t) == handler' = [handler EXCEPT ![h].pc = pc, ![h].thread = t]
HandlerLeaves(h) == handler' = [handler EXCEPT ![h] = HandlerIdle]

-----------------------------------------------------------------------------
(* HandleMessage goes on with a runnable message.  The event shows the      *)
(* thread the message had when it was sent.                                 *)
HandleMessage(h, m) ==
    /\ handler[h].pc = "idle" /\ handled[m] < MaxEvents
    /\ m \in DiscordRunnable
    /\ handled' = [handled EXCEPT ![m] = @ + 1]
    /\ \E seen \in {NoThread} \cup (IF m \in Roots THEN {threadOf[m]} ELSE {}) :
         handler' = [handler EXCEPT ![h] =
             [pc |-> "resolve", msg |-> m, seen |-> seen, thread |-> NoThread]]
    /\ UNCHANGED <<discord, bindings, discordItems, discordNotices, discordFaults>>

(* resolveRoute asks for the channel, which may be cached, and fails closed. *)
ResolveRoute(h) ==
    LET m == handler[h].msg
    IN  /\ handler[h].pc = "resolve"
        /\ \/ /\ IF m \in Roots THEN To(h, "lookup", NoThread)
                 ELSE To(h, "ingest", HomeOf[m])
              /\ UNCHANGED discordFaults
           \/ HandlerLeaves(h) /\ DiscordFault
        /\ UNCHANGED <<discord, bindings, discordItems, discordNotices, handled>>

(* threadFor: a bound thread is used; one the event shows is bound; else    *)
(* the message is asked for one.  A failed lookup counts as not bound.      *)
LookupThread(h) ==
    /\ handler[h].pc = "lookup"
    /\ LET bound == bindings[handler[h].msg]
           else  == IF handler[h].seen # NoThread
                    THEN To(h, "bind", handler[h].seen)
                    ELSE To(h, "fetch", NoThread)
       IN  \/ /\ IF bound # NoThread THEN To(h, "ingest", bound) ELSE else
              /\ UNCHANGED discordFaults
           \/ else /\ DiscordFault
    /\ UNCHANGED <<discord, bindings, discordItems, discordNotices, handled>>

(* The message is fetched: before a thread is started, and once more when   *)
(* the outcome of starting it is unknown.                                   *)
FetchMessage(h) ==
    /\ handler[h].pc \in {"fetch", "recheck"}
    /\ LET found == threadOf[handler[h].msg]
           none  == To(h, IF handler[h].pc = "fetch" THEN "start" ELSE "notify", NoThread)
       IN  \/ /\ IF found # NoThread THEN To(h, "bind", found) ELSE none
              /\ UNCHANGED discordFaults
           \/ none /\ DiscordFault
    /\ UNCHANGED <<discord, bindings, discordItems, discordNotices, handled>>

(* MessageThreadStartComplex: the outcome may stay unknown.                 *)
StartThread(h) ==
    LET m == handler[h].msg
    IN  /\ handler[h].pc = "start"
        /\ \/ \* it is started, or it was there
              /\ \E t \in IF threadOf[m] # NoThread THEN {threadOf[m]}
                          ELSE Threads \ (made \cup Homes) :
                   /\ threadOf' = [threadOf EXCEPT ![m] = t]
                   /\ made' = made \cup {t}
                   /\ \/ To(h, "bind", t) /\ UNCHANGED discordFaults
                      \/ To(h, "recheck", NoThread) /\ DiscordFault
           \/ \* nothing happened
              To(h, "recheck", NoThread) /\ DiscordFault /\ UNCHANGED discord
        /\ UNCHANGED <<bindings, discordItems, discordNotices, handled>>

(* Faulty: the binding is replaced.                                         *)
BindThreadAgain(h) ==
    LET m == handler[h].msg
    IN  /\ handler[h].pc = "bind"
        /\ bindings' = [bindings EXCEPT ![m] = handler[h].thread]
        /\ To(h, "ingest", handler[h].thread)
        /\ UNCHANGED <<discord, discordItems, discordNotices, handled, discordFaults>>

(* BindThread: the first binding stays, and the caller goes on with it.     *)
BindThread(h) ==
    LET m == handler[h].msg
    IN  /\ handler[h].pc = "bind"
        /\ LET bound == IF bindings[m] = NoThread THEN handler[h].thread ELSE bindings[m]
           IN  /\ bindings' = [bindings EXCEPT ![m] = bound]
               /\ To(h, "ingest", bound)
        /\ UNCHANGED <<discord, discordItems, discordNotices, handled, discordFaults>>

BindFails(h) ==
    /\ handler[h].pc = "bind" /\ DiscordFault
    /\ To(h, "notify", NoThread)
    /\ UNCHANGED <<discord, bindings, discordItems, discordNotices, handled>>

(* Ingest: a recorded event is a duplicate, and has no notice.              *)
Ingest(h) ==
    LET key == <<handler[h].thread, handler[h].msg>>
    IN  /\ handler[h].pc = "ingest"
        /\ discordItems' = discordItems \cup {key}
        /\ IF key \in discordItems THEN HandlerLeaves(h) ELSE To(h, "answer", handler[h].thread)
        /\ UNCHANGED <<discord, bindings, discordNotices, handled, discordFaults>>

(* The first arrival may have a notice for the sender.                      *)
DiscordNotify(h) ==
    /\ handler[h].pc = "answer"
    /\ \/ discordNotices' = [discordNotices EXCEPT ![handler[h].msg] = @ + 1]
       \/ UNCHANGED discordNotices
    /\ HandlerLeaves(h)
    /\ UNCHANGED <<discord, bindings, discordItems, handled, discordFaults>>

(* The Gateway has no acknowledgement: what cannot be stored is dropped.    *)
IngestFails(h) ==
    /\ handler[h].pc = "ingest" /\ DiscordFault
    /\ HandlerLeaves(h)
    /\ UNCHANGED <<discord, bindings, discordItems, discordNotices, handled>>

(* The sender is told that there is no thread; not counted as a notice of   *)
(* the conversation.                                                        *)
NotifyFailure(h) ==
    /\ handler[h].pc = "notify"
    /\ HandlerLeaves(h)
    /\ UNCHANGED <<discord, bindings, discordItems, discordNotices, handled, discordFaults>>

DiscordCrash ==
    /\ DiscordFault
    /\ handler' = [h \in Handlers |-> HandlerIdle]
    /\ UNCHANGED <<discord, bindings, discordItems, discordNotices, handled>>

(* A moderator deletes a thread.                                            *)
DeleteThread(m) ==
    /\ threadOf[m] # NoThread /\ Cardinality(Deleted) < MaxDeleted
    /\ threadOf' = [threadOf EXCEPT ![m] = NoThread]
    /\ UNCHANGED <<made, handler, bindings, discordItems, discordNotices, handled, discordFaults>>

DiscordInit ==
    /\ threadOf = [m \in Roots |-> NoThread] /\ made = {}
    /\ handler = [h \in Handlers |-> HandlerIdle]
    /\ bindings = [m \in Roots |-> NoThread] /\ discordItems = {}
    /\ discordNotices = [m \in DiscordMsgs |-> 0] /\ handled = [m \in DiscordMsgs |-> 0]
    /\ discordFaults = 0

DiscordNext ==
    \/ \E h \in Handlers :
         \/ \E m \in DiscordMsgs : HandleMessage(h, m)
         \/ ResolveRoute(h) \/ LookupThread(h) \/ FetchMessage(h) \/ StartThread(h)
         \/ BindThread(h) \/ BindFails(h)
         \/ Ingest(h) \/ DiscordNotify(h) \/ IngestFails(h) \/ NotifyFailure(h)
    \/ DiscordCrash
    \/ \E m \in Roots : DeleteThread(m)

DiscordSpec == DiscordInit /\ [][DiscordNext]_discordVars

-----------------------------------------------------------------------------
(* The adapter keeps the promise of Intake, although the deduplication key  *)
(* of a message in a text channel names a thread that is still to be found: *)
(* replayed and concurrent copies, unknown outcomes, deleted threads and    *)
(* crashes never file one message under two conversations.  Nothing is ever *)
(* settled with the platform.                                               *)
DiscordPromise == INSTANCE Intake WITH
    Msgs <- DiscordMsgs, Runnable <- DiscordRunnable, notices <- discordNotices,
    Routes <- Threads,
    recorded <- {<<key[2], key[1]>> : key \in discordItems},
    settled <- {}

DiscordKeepsPromise == DiscordPromise!Spec

=============================================================================
