------------------------------ MODULE Channel ------------------------------
(***************************************************************************)
(* src/src/channel.c with its users in ioctl.c, driver.c and mailbox.c:    *)
(* the channel through which the driver notifies the service and waits for *)
(* its answer.                                                             *)
(*                                                                         *)
(* Clients are threads of the service that issue IOCTL_SHIELD_CHANNEL_     *)
(* SETUP and _TEARDOWN and close the device; Senders are threads inside    *)
(* DsSendNotificationMessage (the mailbox worker).  The helper, a thread   *)
(* of the service (external), answers messages until it dies.              *)
(*                                                                         *)
(* A channel is published in gChannel, announced by DSH_GFL_CHANNEL_SETUP  *)
(* and guarded by the rundown protection gChannelRundown (external: open   *)
(* or closed, and a number of references).                                 *)
(*                                                                         *)
(* Dereferencing NULL or a freed channel stops the machine (fault).        *)
(***************************************************************************)
EXTENDS Integers, FiniteSets

CONSTANTS
    Clients,        \* service threads with a handle to the device
    SetupClients,   \* the ones that issue IOCTL_SHIELD_CHANNEL_SETUP
    Senders,        \* threads that send notifications
    Buckets,        \* bucket indices, DS_MAX_BUCKETS of them
    MaxChannels,    \* bound on the channels ever created
    MaxMessages,    \* bound on the messages sent through one channel
    HelperMayDie    \* whether the service can stop answering

ASSUME ClientsAssumption == SetupClients \subseteq Clients
ASSUME SendersAssumption == IsFiniteSet(Senders)
ASSUME BucketsAssumption == Buckets \subseteq Nat /\ IsFiniteSet(Buckets) /\ Buckets # {}
ASSUME BoundsAssumption ==
    /\ MaxChannels \in Nat \ {0} /\ MaxMessages \in Nat
    /\ HelperMayDie \in BOOLEAN

NULL == 0
Channels == 1..MaxChannels
Terminate == 0      \* UniqueId of a terminate message

VARIABLES
    gChannel,   \* the published channel, or NULL
    setup,      \* DSH_GFL_CHANNEL_SETUP in gStateFlags
    gate,       \* gChannelRundown: "open", or "closed" to new references
    refs,       \* gChannelRundown: references held
    chan,       \* chan[c]: "unused", "live" or "freed"
    free,       \* free[c]: the bits set in BucketsBitMap
    message,    \* message[c][b]: UniqueId of the message in the bucket
    high, low,  \* high[c], low[c]: buckets whose event is signalled
    answer,     \* answer[c][b]: the message Message->Action answers
    uniqueId,   \* the static counter UniqueId
    told,       \* channels whose ChannelId has been returned to the service
    open,       \* clients that have the device open (OpenDeviceCount)
    cpc, del,   \* cpc[t], del[t]: a client's next step, DeletingChannel
    spc,        \* spc[s]: a sender's next step
    arg,        \* arg[s]: its Channel argument
    idx,        \* idx[s]: its FreeIndex/BucketIndex
    mine, got,  \* mine[s], got[s]: the message it sent, the one answered
    alive,      \* the helper answers
    fault       \* "none", "null" or "freed"

shared == <<gChannel, setup, gate, refs>>
object == <<chan, free, message, high, low, answer, uniqueId>>
client == <<told, open, cpc, del>>
sender == <<spc, arg, idx, mine, got>>
vars == <<shared, object, client, sender, alive, fault>>

Largest(S) == CHOOSE b \in S : \A x \in S : x <= b

Init ==
    /\ gChannel = NULL /\ setup = FALSE
    /\ gate = "open" /\ refs = 0
    /\ chan = [c \in Channels |-> "unused"]
    /\ free = [c \in Channels |-> {}]
    /\ message = [c \in Channels |-> [b \in Buckets |-> Terminate]]
    /\ high = [c \in Channels |-> {}] /\ low = [c \in Channels |-> {}]
    /\ answer = [c \in Channels |-> [b \in Buckets |-> Terminate]]
    /\ uniqueId = 0
    /\ told = {} /\ open = {}
    /\ cpc = [t \in Clients |-> "idle"] /\ del = [t \in Clients |-> NULL]
    /\ spc = [s \in Senders |-> "idle"] /\ arg = [s \in Senders |-> NULL]
    /\ idx = [s \in Senders |-> 0]
    /\ mine = [s \in Senders |-> 0] /\ got = [s \in Senders |-> 0]
    /\ alive = TRUE /\ fault = "none"

Up == fault = "none"

At(t, step) == Up /\ cpc[t] = step
Goto(t, step) == cpc' = [cpc EXCEPT ![t] = step]

-----------------------------------------------------------------------------
(* DriverDeviceCreateClose, IRP_MJ_CREATE.                                 *)
Open(t) ==
    /\ At(t, "idle") /\ t \notin open
    /\ open' = open \cup {t}
    /\ UNCHANGED <<shared, object, told, cpc, del, sender, alive, fault>>

(* IRP_MJ_CLOSE: the last one to close takes the channel down.  The I/O    *)
(* manager sends it when the handle has no request in progress.            *)
Close(t) ==
    /\ At(t, "idle") /\ t \in open
    /\ open' = open \ {t}
    /\ Goto(t, IF open' = {} /\ setup THEN "exchange" ELSE "idle")
    /\ UNCHANGED <<shared, object, told, del, sender, alive, fault>>

-----------------------------------------------------------------------------
(* DsCtlShieldChannelSetup and DsInitializeChannel                         *)

SetupBegin(t) ==
    /\ At(t, "idle") /\ t \in open \cap SetupClients
    /\ ~ setup
    /\ \E c \in Channels : chan[c] = "unused"
    /\ gChannel' = NULL             \* *NewChannel = NULL
    /\ Goto(t, "create")
    /\ UNCHANGED <<setup, gate, refs, object, told, open, del, sender, alive, fault>>

(* The new channel: every bucket free, fresh events; published at the end. *)
SetupCreate(t) ==
    LET c == CHOOSE x \in Channels : chan[x] = "unused"
    IN  /\ At(t, "create")
        /\ chan' = [chan EXCEPT ![c] = "live"]
        /\ free' = [free EXCEPT ![c] = Buckets]
        /\ uniqueId' = 0
        /\ gChannel' = c
        /\ Goto(t, "rundown")
        /\ UNCHANGED <<setup, gate, refs, message, high, low, answer,
                       told, open, del, sender, alive, fault>>

(* No memory for the channel: the request fails and nothing is published.  *)
SetupNoMemory(t) ==
    /\ At(t, "create")
    /\ Goto(t, "idle")
    /\ UNCHANGED <<shared, object, told, open, del, sender, alive, fault>>

(* The MDL, the mapping or an event fails: DsDestroyChannel signals the    *)
(* events of every bucket, the ones never created included.                *)
SetupPartial(t) ==
    /\ At(t, "create")
    /\ fault' = "null"
    /\ UNCHANGED <<shared, object, client, sender, alive>>

(* ExInitializeRundownProtection or ExReInitializeRundownProtection.       *)
SetupRundown(t) ==
    /\ At(t, "rundown")
    /\ gate' = "open" /\ refs' = 0
    /\ Goto(t, "announce")
    /\ UNCHANGED <<gChannel, setup, object, told, open, del, sender, alive, fault>>

SetupAnnounce(t) ==
    /\ At(t, "announce")
    /\ setup' = TRUE
    /\ Goto(t, "reply")
    /\ UNCHANGED <<gChannel, gate, refs, object, told, open, del, sender, alive, fault>>

(* The caller gets gChannel->ChannelId, read anew: another request may     *)
(* have taken the channel since.                                           *)
SetupReply(t) ==
    /\ At(t, "reply")
    /\ \/ /\ gChannel # NULL /\ told' = told \cup {gChannel}
          /\ Goto(t, "idle") /\ fault' = fault
       \/ /\ gChannel = NULL /\ fault' = "null"
          /\ UNCHANGED <<told, cpc>>
    /\ UNCHANGED <<shared, object, open, del, sender, alive>>

-----------------------------------------------------------------------------
(* DsCtlShieldChannelTeardown; IRP_MJ_CLOSE joins it at "exchange".        *)

TeardownBegin(t) ==
    /\ At(t, "idle") /\ t \in open
    /\ setup
    /\ Goto(t, "identify")
    /\ UNCHANGED <<shared, object, told, open, del, sender, alive, fault>>

(* The identifier given by the caller is compared with the one of the      *)
(* published channel: it is the right one (the service knows those it has  *)
(* been told), it is not, or there is no channel to take one from.         *)
TeardownIdentify(t) ==
    /\ At(t, "identify")
    /\ \/ gChannel \in told /\ Goto(t, "exchange") /\ UNCHANGED fault
       \/ gChannel # NULL /\ Goto(t, "idle") /\ UNCHANGED fault
       \/ gChannel = NULL /\ fault' = "null" /\ UNCHANGED cpc
    /\ UNCHANGED <<shared, object, told, open, del, sender, alive>>

(* Mutant: the channel is taken by a plain read, and every taker wins.     *)
ExchangePlainRead(t) ==
    /\ At(t, "exchange")
    /\ del' = [del EXCEPT ![t] = gChannel]
    /\ Goto(t, IF gChannel = NULL THEN "idle" ELSE "gate")
    /\ UNCHANGED <<shared, object, told, open, sender, alive, fault>>

(* InterlockedExchangePointer: the one that gets the channel destroys it.  *)
Exchange(t) ==
    /\ At(t, "exchange")
    /\ del' = [del EXCEPT ![t] = gChannel]
    /\ gChannel' = NULL
    /\ Goto(t, IF gChannel = NULL THEN "idle" ELSE "gate")
    /\ UNCHANGED <<setup, gate, refs, object, told, open, sender, alive, fault>>

(* ExWaitForRundownProtectionRelease closes the gate ...                   *)
CloseGate(t) ==
    /\ At(t, "gate")
    /\ gate' = "closed"
    /\ Goto(t, "drain")
    /\ UNCHANGED <<gChannel, setup, refs, object, told, open, del, sender, alive, fault>>

(* Mutant: the references are not waited for.                              *)
DrainNoWait(t) ==
    /\ At(t, "drain")
    /\ Goto(t, "clear")
    /\ UNCHANGED <<shared, object, told, open, del, sender, alive, fault>>

(* ... and waits for the references; ExRundownCompleted keeps it closed.   *)
Drain(t) ==
    /\ At(t, "drain")
    /\ refs = 0
    /\ Goto(t, "clear")
    /\ UNCHANGED <<shared, object, told, open, del, sender, alive, fault>>

ClearSetup(t) ==
    /\ At(t, "clear")
    /\ setup' = FALSE
    /\ Goto(t, "die")
    /\ UNCHANGED <<gChannel, gate, refs, object, told, open, del, sender, alive, fault>>

(* DsDestroyChannel: every bucket gets the terminate message ...           *)
DestroySignal(t) ==
    LET c == del[t]
    IN  /\ At(t, "die")
        /\ message' = [message EXCEPT ![c] = [b \in Buckets |-> Terminate]]
        /\ high' = [high EXCEPT ![c] = Buckets]
        /\ Goto(t, "free")
        /\ UNCHANGED <<shared, chan, free, low, answer, uniqueId, told, open, del, sender, alive, fault>>

(* Mutant: DeletingChannel is kept, the channel is never freed.            *)
DestroyLeak(t) ==
    /\ At(t, "free")
    /\ del' = [del EXCEPT ![t] = NULL]
    /\ Goto(t, "idle")
    /\ UNCHANGED <<shared, object, told, open, sender, alive, fault>>

(* ... and is released when all have acknowledged, or after three seconds. *)
DestroyFree(t) ==
    /\ At(t, "free")
    /\ chan' = [chan EXCEPT ![del[t]] = "freed"]
    /\ del' = [del EXCEPT ![t] = NULL]
    /\ Goto(t, "idle")
    /\ UNCHANGED <<shared, free, message, high, low, answer, uniqueId, told, open, sender, alive, fault>>

ClientStep(t) ==
    \/ SetupCreate(t) \/ SetupNoMemory(t) \/ SetupPartial(t)
    \/ SetupRundown(t) \/ SetupAnnounce(t) \/ SetupReply(t)
    \/ TeardownIdentify(t) \/ Exchange(t) \/ CloseGate(t) \/ Drain(t)
    \/ ClearSetup(t) \/ DestroySignal(t) \/ DestroyFree(t)

-----------------------------------------------------------------------------
(* DsSendNotificationMessage                                               *)

SAt(s, step) == Up /\ spc[s] = step
SGoto(s, step) == spc' = [spc EXCEPT ![s] = step]

(* RtlDispatchMailboxData evaluates the argument gChannel.  The bound      *)
(* MaxMessages leaves every sender under way its message.                  *)
SendBegin(s) ==
    /\ SAt(s, "idle")
    /\ uniqueId + Cardinality({x \in Senders : spc[x] # "idle"}) < MaxMessages
    /\ arg' = [arg EXCEPT ![s] = gChannel]
    /\ SGoto(s, "flag")
    /\ UNCHANGED <<shared, object, client, idx, mine, got, alive, fault>>

(* STATUS_NOT_SUPPORTED without a channel ...                              *)
SendFlag(s) ==
    /\ SAt(s, "flag")
    /\ SGoto(s, IF setup THEN "gate" ELSE "idle")
    /\ UNCHANGED <<shared, object, client, arg, idx, mine, got, alive, fault>>

(* ... STATUS_DELETE_PENDING when the gate is closed.                      *)
SendGate(s) ==
    /\ SAt(s, "gate")
    /\ refs' = IF gate = "open" THEN refs + 1 ELSE refs
    /\ SGoto(s, IF gate = "open" THEN "find" ELSE "idle")
    /\ UNCHANGED <<gChannel, setup, gate, object, client, arg, idx, mine, got, alive, fault>>

Usable(s) == arg[s] # NULL /\ chan[arg[s]] = "live"

(* DsAcquireChannelBucket: the most significant free bucket ...            *)
SendFind(s) ==
    /\ SAt(s, "find") /\ Usable(s)
    /\ IF free[arg[s]] = {}
       THEN SGoto(s, "leave") /\ UNCHANGED idx      \* STATUS_INSUFFICIENT_RESOURCES
       ELSE SGoto(s, "take") /\ idx' = [idx EXCEPT ![s] = Largest(free[arg[s]])]
    /\ UNCHANGED <<shared, object, client, arg, mine, got, alive, fault>>

(* The channel the sender was given is not there (any more).               *)
SendFault(s) ==
    /\ SAt(s, "find") /\ ~ Usable(s)
    /\ fault' = IF arg[s] = NULL THEN "null" ELSE "freed"
    /\ UNCHANGED <<shared, object, client, sender, alive>>

(* Mutant: the bit is cleared without looking at its old value.            *)
SendTakeBlind(s) ==
    /\ SAt(s, "take")
    /\ free' = [free EXCEPT ![arg[s]] = @ \ {idx[s]}]
    /\ SGoto(s, "post")
    /\ UNCHANGED <<shared, chan, message, high, low, answer, uniqueId, client,
                   arg, idx, mine, got, alive, fault>>

(* ... taken with InterlockedBitTestAndReset, or searched for again.       *)
SendTake(s) ==
    /\ SAt(s, "take")
    /\ free' = [free EXCEPT ![arg[s]] = @ \ {idx[s]}]
    /\ SGoto(s, IF idx[s] \in free[arg[s]] THEN "post" ELSE "find")
    /\ UNCHANGED <<shared, chan, message, high, low, answer, uniqueId, client,
                   arg, idx, mine, got, alive, fault>>

(* The message is written and the helper's event is set.                   *)
SendPost(s) ==
    LET c == arg[s]
        b == idx[s]
    IN  /\ SAt(s, "post")
        /\ uniqueId' = uniqueId + 1
        /\ mine' = [mine EXCEPT ![s] = uniqueId']
        /\ message' = [message EXCEPT ![c][b] = uniqueId']
        /\ high' = [high EXCEPT ![c] = @ \cup {b}]
        /\ SGoto(s, "wait")
        /\ UNCHANGED <<shared, chan, free, low, answer, client, arg, idx, got, alive, fault>>

(* Mutant: LowEvent stays signalled after the wait it satisfies.           *)
SendWaitNoReset(s) ==
    /\ SAt(s, "wait")
    /\ idx[s] \in low[arg[s]]
    /\ got' = [got EXCEPT ![s] = answer[arg[s]][idx[s]]]
    /\ SGoto(s, "release")
    /\ UNCHANGED <<shared, object, client, arg, idx, mine, alive, fault>>

(* The wait has no timeout; LowEvent is a synchronization event, reset by  *)
(* the wait it satisfies.                                                  *)
SendWait(s) ==
    LET c == arg[s]
        b == idx[s]
    IN  /\ SAt(s, "wait")
        /\ b \in low[c]
        /\ low' = [low EXCEPT ![c] = @ \ {b}]
        /\ got' = [got EXCEPT ![s] = answer[c][b]]
        /\ SGoto(s, "release")
        /\ UNCHANGED <<shared, chan, free, message, high, answer, uniqueId, client,
                       arg, idx, mine, alive, fault>>

(* DsReleaseChannelBucket                                                  *)
SendRelease(s) ==
    /\ SAt(s, "release")
    /\ free' = [free EXCEPT ![arg[s]] = @ \cup {idx[s]}]
    /\ SGoto(s, "leave")
    /\ UNCHANGED <<shared, chan, message, high, low, answer, uniqueId, client,
                   arg, idx, mine, got, alive, fault>>

(* Mutant: the reference taken at the gate is kept.                        *)
SendLeaveHolding(s) ==
    /\ SAt(s, "leave")
    /\ SGoto(s, "idle")
    /\ UNCHANGED <<shared, object, client, arg, idx, mine, got, alive, fault>>

SendLeave(s) ==
    /\ SAt(s, "leave")
    /\ refs' = refs - 1
    /\ SGoto(s, "idle")
    /\ UNCHANGED <<gChannel, setup, gate, object, client, arg, idx, mine, got, alive, fault>>

SenderStep(s) ==
    \/ SendFlag(s) \/ SendGate(s) \/ SendFind(s) \/ SendFault(s) \/ SendTake(s)
    \/ SendPost(s) \/ SendWait(s) \/ SendRelease(s) \/ SendLeave(s)

-----------------------------------------------------------------------------
(* The helper (external): woken by a bucket's HighEvent, it answers what   *)
(* the bucket holds and sets LowEvent.                                     *)
HelperAnswer(c, b) ==
    /\ Up /\ alive /\ chan[c] = "live"
    /\ b \in high[c]
    /\ high' = [high EXCEPT ![c] = @ \ {b}]
    /\ answer' = [answer EXCEPT ![c][b] = message[c][b]]
    /\ low' = [low EXCEPT ![c] = @ \cup {b}]
    /\ UNCHANGED <<shared, chan, free, message, uniqueId, client, sender, alive, fault>>

HelperDies ==
    /\ Up /\ HelperMayDie /\ alive
    /\ alive' = FALSE
    /\ UNCHANGED <<shared, object, client, sender, fault>>

(* A bug check: nothing runs any more.                                     *)
Stopped == ~ Up /\ UNCHANGED vars

Next ==
    \/ \E t \in Clients : Open(t) \/ Close(t) \/ SetupBegin(t) \/ TeardownBegin(t) \/ ClientStep(t)
    \/ \E s \in Senders : SendBegin(s) \/ SenderStep(s)
    \/ \E c \in Channels, b \in Buckets : HelperAnswer(c, b)
    \/ HelperDies
    \/ Stopped

Spec == Init /\ [][Next]_vars

(* Threads inside the driver keep running, and the helper answers while it *)
(* lives.  Nobody has to start a request, close the device or die.         *)
Fairness ==
    /\ \A t \in Clients : WF_vars(ClientStep(t))
    /\ \A s \in Senders : WF_vars(SenderStep(s))
    /\ \A c \in Channels, b \in Buckets : WF_vars(HelperAnswer(c, b))
FairSpec == Spec /\ Fairness

-----------------------------------------------------------------------------
Inside == {"find", "take", "post", "wait", "release", "leave"}
Holds == {"post", "wait", "release"}

TypeOK ==
    /\ gChannel \in Channels \cup {NULL} /\ setup \in BOOLEAN
    /\ gate \in {"open", "closed"} /\ refs \in 0..Cardinality(Senders)
    /\ chan \in [Channels -> {"unused", "live", "freed"}]
    /\ free \in [Channels -> SUBSET Buckets]
    /\ message \in [Channels -> [Buckets -> 0..MaxMessages]]
    /\ high \in [Channels -> SUBSET Buckets] /\ low \in [Channels -> SUBSET Buckets]
    /\ answer \in [Channels -> [Buckets -> 0..MaxMessages]]
    /\ uniqueId \in 0..MaxMessages
    /\ told \subseteq Channels /\ open \subseteq Clients
    /\ cpc \in [Clients -> {"idle", "create", "rundown", "announce", "reply", "identify",
                            "exchange", "gate", "drain", "clear", "die", "free"}]
    /\ del \in [Clients -> Channels \cup {NULL}]
    /\ spc \in [Senders -> {"idle", "flag", "gate"} \cup Inside]
    /\ arg \in [Senders -> Channels \cup {NULL}]
    /\ idx \in [Senders -> Buckets \cup {0}]
    /\ mine \in [Senders -> 0..MaxMessages] /\ got \in [Senders -> 0..MaxMessages]
    /\ alive \in BOOLEAN /\ fault \in {"none", "null", "freed"}

(* The gate does its part: a channel is not destroyed under a sender that  *)
(* holds one of its buckets, so no sender writes a message to, or waits    *)
(* for an event of, a channel that has been freed.                         *)
NotFreedUnderSender ==
    \A s \in Senders : spc[s] \in Holds => Usable(s)

(* A bucket belongs to one sender at a time, and is free or somebody's:    *)
(* the NT_ASSERT of DsReleaseChannelBucket (channel.c:388) holds and no    *)
(* bucket is lost.                                                         *)
BucketsAccounted ==
    /\ \A s1, s2 \in Senders :
         spc[s1] \in Holds /\ spc[s2] \in Holds /\ arg[s1] = arg[s2] /\ idx[s1] = idx[s2]
            => s1 = s2
    /\ \A c \in Channels : chan[c] = "live" =>
         free[c] = Buckets \ {idx[s] : s \in {x \in Senders : spc[x] \in Holds /\ arg[x] = c}}

(* The action a sender returns is the helper's answer to the message it    *)
(* sent, not one to an earlier or a terminate message in the same bucket.  *)
AnswersMatch == \A s \in Senders : spc[s] = "release" => got[s] = mine[s]

(* "The race winner performs the channel destruction" (driver.c:371): two  *)
(* requests never destroy the same channel.                                *)
DestroyedOnce ==
    \A t1, t2 \in Clients : del[t1] # NULL /\ del[t1] = del[t2] => t1 = t2

(* DsCtlShieldChannelTeardown and the last close on two threads keep the   *)
(* channel's type and have one destroyer for it.                           *)
OneDestroyer == TypeOK /\ DestroyedOnce

(* No channel outlives the last handle to the device: DriverUnload finds   *)
(* nothing to tear down.                                                   *)
NoChannelLeft ==
    Up /\ open = {} /\ (\A t \in Clients : cpc[t] = "idle")
        => ~ setup /\ \A c \in Channels : chan[c] # "live"

(* As long as the helper lives, whoever tears the channel down gets        *)
(* through: senders inside leave, and no new ones come in.                 *)
TeardownCompletes ==
    []alive => \A t \in Clients : cpc[t] = "gate" ~> (cpc[t] = "idle" \/ ~ Up)
=============================================================================
