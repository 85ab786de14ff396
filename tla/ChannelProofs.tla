--------------------------- MODULE ChannelProofs ---------------------------
(***************************************************************************)
(* Proofs about Channel, for every number of senders, buckets, channels    *)
(* and messages.                                                           *)
(***************************************************************************)
EXTENDS Channel, FiniteSetTheorems, TLAPS

(* The most significant bit that DsAcquireChannelBucket looks for exists   *)
(* in every bitmap that is not 0.                                          *)
LEMMA LargestExists ==
    ASSUME NEW S \in SUBSET Buckets, S # {}
    PROVE  Largest(S) \in S /\ \A x \in S : x <= Largest(S)
<1> DEFINE Above(b) == {x \in S : b < x}
           T == {Above(b) : b \in S}
<1>1. IsFiniteSet(S) /\ S \subseteq Nat
  BY BucketsAssumption, FS_Subset
<1>2. T \subseteq FiniteSubsetsOf(S) /\ T # {}
  <2>1. FiniteSubsetsOf(S) = SUBSET S
    BY <1>1, FS_FiniteSubsetsOfFinite
  <2>2. \A b \in S : Above(b) \in SUBSET S
    OBVIOUS
  <2>3. PICK b \in S : TRUE
    OBVIOUS
  <2>4. Above(b) \in T
    BY <2>3
  <2> HIDE DEF Above
  <2> QED BY <2>1, <2>2, <2>4
<1>3. IsWellFoundedOn(StrictSubsetOrdering(S), FiniteSubsetsOf(S))
  BY FS_StrictSubsetOrderingWellFounded
<1>4. PICK A \in T : \A B \in T : ~ (<<B, A>> \in StrictSubsetOrdering(S))
  <2> HIDE DEF T
  <2> QED BY <1>2, <1>3, WFMin
<1>5. PICK b \in S : A = Above(b)
  OBVIOUS
<1>6. \A x \in S : x <= b
  <2> SUFFICES ASSUME NEW y \in S, b < y PROVE FALSE
    BY <1>1
  <2>0. b \in Nat /\ y \in Nat /\ \A x \in S : x \in Nat
    BY <1>1
  <2>1. Above(y) \subseteq Above(b) /\ y \in Above(b) /\ y \notin Above(y)
    <3>1. \A x \in S : y < x => b < x
      BY <2>0
    <3>2. ~ (y < y)
      BY <2>0
    <3>3. Above(y) \subseteq Above(b)
      BY <3>1
    <3>4. y \in Above(b)
      OBVIOUS
    <3>5. y \notin Above(y)
      BY <3>2
    <3> QED BY <3>3, <3>4, <3>5
  <2>2. Above(y) \in T /\ Above(y) \in SUBSET S /\ A \in SUBSET S /\ Above(y) # A
    BY <1>5, <2>1
  <2>3. <<Above(y), A>> \in StrictSubsetOrdering(S)
    BY <1>5, <2>1, <2>2 DEF StrictSubsetOrdering
  <2> QED BY <1>4, <2>2, <2>3
<1> QED BY <1>6 DEF Largest
-----------------------------------------------------------------------------
(* Any number of threads of the service, one of which, sc, sets channels   *)
(* up.  A thread that takes the channel between its creation and the reply *)
(* leaves sc with nothing to reply with: sc is doomed, and with it the     *)
(* machine.                                                                *)

Deleting == {"gate", "drain", "clear"}
Dying == {"die", "free"}
SettingUp == {"create", "rundown", "announce", "reply"}

InsideSet == {s \in Senders : spc[s] \in Inside}
Pending == {s \in Senders : spc[s] \in {"flag", "gate", "find", "take", "post"}}

(* References are counted, and a message is left for who still has to post. *)
Counts ==
    /\ refs = Cardinality(InsideSet)
    /\ uniqueId + Cardinality(Pending) <= MaxMessages

(* Who owns a channel: gChannel, or the thread that has taken it.          *)
Owners(sc) ==
    /\ \A t \in Clients : del[t] # NULL <=> cpc[t] \in Deleting \cup Dying
    /\ \A t \in Clients : del[t] # NULL => chan[del[t]] = "live" /\ del[t] # gChannel
    /\ gChannel # NULL => chan[gChannel] = "live"
    /\ DestroyedOnce
    /\ \A t \in Clients : cpc[t] \in SettingUp => t = sc
    /\ cpc[sc] = "create" => \E c \in Channels : chan[c] = "unused"
    /\ \A s \in Senders : arg[s] # NULL => chan[arg[s]] # "unused"

NeverUp == gate = "open" /\ \A s \in Senders : spc[s] \in {"idle", "flag"}
Shut == gate = "closed" /\ InsideSet = {}
Doomed(sc) == cpc[sc] \in {"announce", "reply"} /\ gChannel = NULL

(* What the gate and DSH_GFL_CHANNEL_SETUP say of who is inside.           *)
Gates(sc) ==
    /\ \A t \in Clients : cpc[t] \in Deleting
         => gChannel = NULL /\ (setup \/ cpc[sc] \in {"rundown", "announce", "reply"})
    /\ \A t, u \in Clients : cpc[t] \in Deleting /\ cpc[u] \in Deleting => t = u
    /\ cpc[sc] \in {"create", "rundown"} => ~ setup
    /\ gChannel # NULL => setup \/ cpc[sc] \in {"rundown", "announce"}
    /\ \A t \in Clients : cpc[t] = "drain" => gate = "closed" \/ Doomed(sc)
    /\ \A t \in Clients : cpc[t] = "clear" => Shut \/ Doomed(sc)
    /\ ~ setup /\ cpc[sc] \notin {"announce", "reply"} => NeverUp \/ Shut

HeldIn(c) == {idx[s] : s \in {x \in Senders : spc[x] \in Holds /\ arg[x] = c}}

(* A bucket is free or somebody's, also in a channel that has been freed.  *)
BucketsOwned ==
    /\ \A s \in Senders : spc[s] \in Holds \cup {"take"} => arg[s] \in Channels /\ idx[s] \in Buckets
    /\ \A s1, s2 \in Senders :
         spc[s1] \in Holds /\ spc[s2] \in Holds /\ arg[s1] = arg[s2] /\ idx[s1] = idx[s2]
            => s1 = s2
    /\ \A c \in Channels : chan[c] # "unused" => free[c] = Buckets \ HeldIn(c)

RacesInv(sc) == TypeOK /\ Counts /\ Owners(sc) /\ Gates(sc) /\ BucketsOwned
-----------------------------------------------------------------------------
(* How the cardinality of a set of senders changes when one of them moves. *)
LEMMA OneMoves ==
    ASSUME NEW A \in SUBSET Senders, NEW B \in SUBSET Senders, NEW s,
           \A u \in Senders : u # s => (u \in A <=> u \in B)
    PROVE  /\ Cardinality(A) \in Nat /\ Cardinality(B) \in Nat
           /\ Cardinality(A) <= Cardinality(Senders) /\ Cardinality(Senders) \in Nat
           /\ s \in A /\ s \in B => Cardinality(B) = Cardinality(A)
           /\ s \notin A /\ s \notin B => Cardinality(B) = Cardinality(A)
           /\ s \notin A /\ s \in B => Cardinality(B) = Cardinality(A) + 1
           /\ s \in A /\ s \notin B => Cardinality(B) = Cardinality(A) - 1
<1>1. IsFiniteSet(A) /\ IsFiniteSet(B) /\ Cardinality(A) <= Cardinality(Senders)
  BY SendersAssumption, FS_Subset
<1>2. Cardinality(A) \in Nat /\ Cardinality(B) \in Nat /\ Cardinality(Senders) \in Nat
  BY <1>1, SendersAssumption, FS_CardinalityType
<1>3. (s \in A /\ s \in B) \/ (s \notin A /\ s \notin B) => A = B
  OBVIOUS
<1>4. s \notin A /\ s \in B => B = A \cup {s}
  OBVIOUS
<1>5. s \in A /\ s \notin B => B = A \ {s}
  OBVIOUS
<1> QED BY <1>1, <1>2, <1>3, <1>4, <1>5, FS_AddElement, FS_RemoveElement

(* The steps of clients and of the helper that leave the senders alone.    *)
LEMMA CountsKept ==
    ASSUME Counts, UNCHANGED <<spc, refs, uniqueId>>
    PROVE  Counts'
<1>1. InsideSet' = InsideSet /\ Pending' = Pending
  BY DEF InsideSet, Pending
<1> QED BY <1>1 DEF Counts

LEMMA BucketsKept ==
    ASSUME BucketsOwned, UNCHANGED <<spc, arg, idx, free>>,
           \A c \in Channels : chan'[c] # "unused" => chan[c] # "unused"
    PROVE  BucketsOwned'
<1>1. \A c \in Channels : HeldIn(c)' = HeldIn(c)
  BY DEF HeldIn
<1> QED BY <1>1 DEF BucketsOwned

(* Steps that change neither the gate nor who is inside.                   *)
LEMMA GatesKept ==
    ASSUME UNCHANGED <<gate, spc>>
    PROVE  (NeverUp' <=> NeverUp) /\ (Shut' <=> Shut)
BY DEF NeverUp, Shut, InsideSet

-----------------------------------------------------------------------------
(* Opening and closing the device, and the requests as they come in.       *)
LEMMA RequestsKeepRacesInv ==
    ASSUME NEW sc \in Clients, SetupClients \subseteq {sc}, RacesInv(sc), NEW t \in Clients,
           Open(t) \/ Close(t) \/ SetupBegin(t) \/ TeardownBegin(t)
    PROVE  RacesInv(sc)'
<1> USE DEF shared, object, sender, RacesInv
<1>1. /\ UNCHANGED <<setup, gate, refs, object, told, del, sender, alive, fault>>
      /\ cpc[t] = "idle" /\ open' \in SUBSET Clients
      /\ \A u \in Clients : u # t => cpc'[u] = cpc[u]
      /\ \/ cpc'[t] = "idle" /\ gChannel' = gChannel
         \/ cpc'[t] \in {"exchange", "identify"} /\ setup /\ gChannel' = gChannel
         \/ /\ cpc'[t] = "create" /\ ~ setup /\ t = sc /\ gChannel' = NULL
            /\ \E c \in Channels : chan[c] = "unused"
      /\ cpc' \in [Clients -> {"idle", "create", "exchange", "identify", "rundown", "announce",
                               "reply", "gate", "drain", "clear", "die", "free"}]
  BY DEF Open, Close, SetupBegin, TeardownBegin, At, Goto, TypeOK
<1>2. TypeOK'
  BY <1>1 DEF TypeOK
<1>3. Counts' /\ BucketsOwned' /\ (NeverUp' <=> NeverUp) /\ (Shut' <=> Shut)
  BY <1>1, CountsKept, BucketsKept, GatesKept
<1>4. Owners(sc)'
  BY <1>1 DEF Owners, DestroyedOnce, Deleting, Dying, SettingUp
<1>5. Gates(sc)'
  BY <1>1, <1>3 DEF Gates, Doomed, Deleting
<1> QED BY <1>2, <1>3, <1>4, <1>5

(* DsCtlShieldChannelSetup.                                                *)
LEMMA SetupKeepsRacesInv ==
    ASSUME NEW sc \in Clients, RacesInv(sc), NEW t \in Clients,
           SetupCreate(t) \/ SetupNoMemory(t) \/ SetupPartial(t) \/ SetupRundown(t)
             \/ SetupAnnounce(t) \/ SetupReply(t)
    PROVE  RacesInv(sc)'
<1> USE DEF shared, object, sender, client, RacesInv
<1>0. cpc[t] \in SettingUp /\ t = sc
  BY DEF SetupCreate, SetupNoMemory, SetupPartial, SetupRundown, SetupAnnounce, SetupReply, At,
         SettingUp, Owners
<1>1. CASE SetupCreate(t)
  <2>1. PICK c \in Channels : /\ chan[c] = "unused"
                              /\ chan' = [chan EXCEPT ![c] = "live"]
                              /\ free' = [free EXCEPT ![c] = Buckets]
                              /\ gChannel' = c
    <3>1. \E c \in Channels : chan[c] = "unused"
      BY <1>0, <1>1 DEF SetupCreate, At, Owners
    <3> QED BY <1>1, <3>1 DEF SetupCreate
  <2>2. /\ cpc[t] = "create" /\ cpc' = [cpc EXCEPT ![t] = "rundown"] /\ uniqueId' = 0
        /\ UNCHANGED <<setup, gate, refs, message, high, low, answer, told, open, del, sender,
                       alive, fault>>
    BY <1>1 DEF SetupCreate, At, Goto
  <2>3. TypeOK'
    BY <2>1, <2>2, BoundsAssumption DEF TypeOK
  <2>4. Counts'
    <3>1. InsideSet' = InsideSet /\ Pending' = Pending
      BY <2>2 DEF InsideSet, Pending
    <3>2. Cardinality(Pending) \in Nat
      BY OneMoves DEF Pending
    <3>3. uniqueId \in Nat
      BY DEF TypeOK
    <3> QED BY <2>2, <3>1, <3>2, <3>3, BoundsAssumption DEF Counts
  <2>5. Owners(sc)'
    <3>1. \A u \in Clients : del[u] # NULL => del[u] \in Channels /\ del[u] # c
      BY <2>1 DEF TypeOK, Owners
    <3>2. \A s \in Senders : arg[s] # NULL => arg[s] \in Channels /\ arg[s] # c
      BY <2>1 DEF TypeOK, Owners
    <3> QED BY <1>0, <2>1, <2>2, <2>3, <3>1, <3>2
            DEF Owners, DestroyedOnce, Deleting, Dying, SettingUp, TypeOK
  <2>6. Gates(sc)'
    <3>1. /\ cpc'[sc] = "rundown" /\ cpc[sc] = "create"
          /\ \A u \in Clients : u # sc => cpc'[u] = cpc[u]
      BY <1>0, <2>2 DEF TypeOK
    <3>2. ~ setup /\ \A u \in Clients : cpc[u] \notin Deleting
      BY <3>1 DEF Gates
    <3> QED BY <2>2, <3>1, <3>2, GatesKept DEF Gates, Doomed, Deleting
  <2>7. BucketsOwned'
    <3>1. \A s \in Senders : spc[s] \in Holds => arg[s] # c
      <4>1. \A s \in Senders : spc[s] \in Holds => arg[s] \in Channels
        BY DEF BucketsOwned
      <4> QED BY <2>1, <4>1, BoundsAssumption DEF Owners, NULL, Channels
    <3>2. \A x \in Channels : HeldIn(x)' = HeldIn(x)
      BY <2>2 DEF HeldIn
    <3>3. HeldIn(c) = {}
      BY <3>1 DEF HeldIn
    <3>4. \A x \in Channels : x # c => free'[x] = free[x] /\ chan'[x] = chan[x]
      BY <2>1 DEF TypeOK
    <3>5. free'[c] = Buckets
      BY <2>1 DEF TypeOK
    <3> QED BY <2>1, <2>2, <3>2, <3>3, <3>4, <3>5 DEF BucketsOwned
  <2> QED BY <2>3, <2>4, <2>5, <2>6, <2>7
<1>2. CASE SetupNoMemory(t)
  <2>1. /\ cpc[t] = "create" /\ cpc' = [cpc EXCEPT ![t] = "idle"]
        /\ UNCHANGED <<shared, object, told, open, del, sender, alive, fault>>
    BY <1>2 DEF SetupNoMemory, At, Goto
  <2>2. TypeOK'
    BY <2>1 DEF TypeOK
  <2>3. Counts' /\ BucketsOwned' /\ (NeverUp' <=> NeverUp) /\ (Shut' <=> Shut)
    BY <2>1, CountsKept, BucketsKept, GatesKept
  <2>4. /\ cpc[sc] = "create" /\ cpc'[sc] = "idle"
        /\ \A u \in Clients : u # sc => cpc'[u] = cpc[u]
    BY <1>0, <2>1 DEF TypeOK
  <2>5. Owners(sc)'
    BY <2>1, <2>4 DEF Owners, DestroyedOnce, Deleting, Dying, SettingUp
  <2>6. Gates(sc)'
    BY <2>1, <2>3, <2>4 DEF Gates, Doomed, Deleting
  <2> QED BY <2>2, <2>3, <2>5, <2>6
<1>3. CASE SetupPartial(t)
  <2>1. fault' = "null" /\ UNCHANGED <<shared, object, client, sender, alive>>
    BY <1>3 DEF SetupPartial
  <2>2. TypeOK'
    BY <2>1 DEF TypeOK
  <2>3. Counts' /\ BucketsOwned' /\ (NeverUp' <=> NeverUp) /\ (Shut' <=> Shut)
    BY <2>1, CountsKept, BucketsKept, GatesKept
  <2> QED BY <2>1, <2>2, <2>3 DEF Owners, DestroyedOnce, Gates, Doomed
<1>4. CASE SetupRundown(t)
  <2>1. /\ cpc[t] = "rundown" /\ cpc' = [cpc EXCEPT ![t] = "announce"] /\ gate' = "open" /\ refs' = 0
        /\ UNCHANGED <<gChannel, setup, object, told, open, del, sender, alive, fault>>
    BY <1>4 DEF SetupRundown, At, Goto
  <2>2. /\ cpc[sc] = "rundown" /\ cpc'[sc] = "announce"
        /\ \A u \in Clients : u # sc => cpc'[u] = cpc[u]
    BY <1>0, <2>1 DEF TypeOK
  <2>3. ~ setup /\ InsideSet = {}
    BY <2>2 DEF Gates, NeverUp, Shut, InsideSet, Inside
  <2>4. InsideSet' = {} /\ Pending' = Pending
    BY <2>1, <2>3 DEF InsideSet, Pending
  <2>5. Counts'
    BY <2>1, <2>4, FS_EmptySet DEF Counts
  <2>6. TypeOK'
    <3>1. Cardinality(Senders) \in Nat
      BY SendersAssumption, FS_CardinalityType
    <3> QED BY <2>1, <3>1 DEF TypeOK
  <2>7. Owners(sc)'
    BY <2>1, <2>2 DEF Owners, DestroyedOnce, Deleting, Dying, SettingUp
  <2>8. Gates(sc)'
    BY <2>1, <2>2, <2>3 DEF Gates, Doomed, Deleting
  <2> QED BY <2>1, <2>5, <2>6, <2>7, <2>8, BucketsKept
<1>5. CASE SetupAnnounce(t)
  <2>1. /\ cpc[t] = "announce" /\ cpc' = [cpc EXCEPT ![t] = "reply"] /\ setup' = TRUE
        /\ UNCHANGED <<gChannel, gate, refs, object, told, open, del, sender, alive, fault>>
    BY <1>5 DEF SetupAnnounce, At, Goto
  <2>2. TypeOK'
    BY <2>1 DEF TypeOK
  <2>3. Counts' /\ BucketsOwned' /\ (NeverUp' <=> NeverUp) /\ (Shut' <=> Shut)
    BY <2>1, CountsKept, BucketsKept, GatesKept
  <2>4. /\ cpc[sc] = "announce" /\ cpc'[sc] = "reply"
        /\ \A u \in Clients : u # sc => cpc'[u] = cpc[u]
    BY <1>0, <2>1 DEF TypeOK
  <2>5. Owners(sc)'
    BY <2>1, <2>4 DEF Owners, DestroyedOnce, Deleting, Dying, SettingUp
  <2>6. Gates(sc)'
    BY <2>1, <2>3, <2>4 DEF Gates, Doomed, Deleting
  <2> QED BY <2>2, <2>3, <2>5, <2>6
<1>6. CASE SetupReply(t)
  <2>1. cpc[t] = "reply" /\ UNCHANGED <<shared, object, open, del, sender, alive>>
    BY <1>6 DEF SetupReply, At
  <2>2. Counts' /\ BucketsOwned' /\ (NeverUp' <=> NeverUp) /\ (Shut' <=> Shut)
    BY <2>1, CountsKept, BucketsKept, GatesKept
  <2>3. CASE gChannel # NULL
    <3>1. told' = told \cup {gChannel} /\ cpc' = [cpc EXCEPT ![t] = "idle"] /\ fault' = fault
      BY <1>6, <2>3 DEF SetupReply, Goto
    <3>2. TypeOK'
      BY <2>1, <2>3, <3>1 DEF TypeOK
    <3>3. /\ cpc[sc] = "reply" /\ cpc'[sc] = "idle"
          /\ \A u \in Clients : u # sc => cpc'[u] = cpc[u]
      BY <1>0, <2>1, <3>1 DEF TypeOK
    <3>4. Owners(sc)'
      BY <2>1, <3>3 DEF Owners, DestroyedOnce, Deleting, Dying, SettingUp
    <3>5. Gates(sc)'
      BY <2>1, <2>2, <2>3, <3>3 DEF Gates, Doomed, Deleting
    <3> QED BY <2>2, <3>2, <3>4, <3>5
  <2>4. CASE gChannel = NULL
    <3>1. fault' = "null" /\ UNCHANGED <<told, cpc>>
      BY <1>6, <2>4 DEF SetupReply
    <3>2. TypeOK'
      BY <2>1, <3>1 DEF TypeOK
    <3> QED BY <2>1, <2>2, <3>1, <3>2 DEF Owners, DestroyedOnce, Gates, Doomed
  <2> QED BY <2>3, <2>4
<1> QED BY <1>1, <1>2, <1>3, <1>4, <1>5, <1>6

(* DsCtlShieldChannelTeardown, from the identifier to the last byte.       *)
LEMMA TeardownKeepsRacesInv ==
    ASSUME NEW sc \in Clients, RacesInv(sc), NEW t \in Clients,
           TeardownIdentify(t) \/ Exchange(t) \/ CloseGate(t) \/ Drain(t) \/ ClearSetup(t)
             \/ DestroySignal(t) \/ DestroyFree(t)
    PROVE  RacesInv(sc)'
<1> USE DEF shared, object, sender, client, RacesInv
<1>0. \A step : Goto(t, step) => cpc'[t] = step /\ \A u \in Clients : u # t => cpc'[u] = cpc[u]
  BY DEF Goto, TypeOK
<1>1. CASE TeardownIdentify(t)
  <2>1. /\ cpc[t] = "identify" /\ UNCHANGED <<shared, object, told, open, del, sender, alive>>
        /\ fault' \in {"none", "null", "freed"}
        /\ cpc'[t] \in {"exchange", "idle", "identify"}
        /\ \A u \in Clients : u # t => cpc'[u] = cpc[u]
    BY <1>0, <1>1 DEF TeardownIdentify, At, TypeOK
  <2>2. TypeOK'
    BY <1>1, <2>1 DEF TeardownIdentify, Goto, TypeOK
  <2>3. Counts' /\ BucketsOwned' /\ (NeverUp' <=> NeverUp) /\ (Shut' <=> Shut)
    BY <2>1, CountsKept, BucketsKept, GatesKept
  <2>4. Owners(sc)'
    BY <2>1 DEF Owners, DestroyedOnce, Deleting, Dying, SettingUp
  <2>5. Gates(sc)'
    BY <2>1, <2>3 DEF Gates, Doomed, Deleting
  <2> QED BY <2>2, <2>3, <2>4, <2>5
<1>2. CASE Exchange(t)
  <2>1. /\ cpc[t] = "exchange" /\ del' = [del EXCEPT ![t] = gChannel] /\ gChannel' = NULL
        /\ cpc'[t] = IF gChannel = NULL THEN "idle" ELSE "gate"
        /\ \A u \in Clients : u # t => cpc'[u] = cpc[u]
        /\ UNCHANGED <<setup, gate, refs, object, told, open, sender, alive, fault>>
    BY <1>0, <1>2 DEF Exchange, At
  <2>2. TypeOK'
    BY <1>2, <2>1 DEF Exchange, Goto, TypeOK
  <2>3. Counts' /\ BucketsOwned' /\ (NeverUp' <=> NeverUp) /\ (Shut' <=> Shut)
    BY <2>1, CountsKept, BucketsKept, GatesKept
  <2>4. del'[t] = gChannel /\ \A u \in Clients : u # t => del'[u] = del[u]
    BY <2>1 DEF TypeOK
  <2>5. Owners(sc)'
    BY <2>1, <2>4 DEF Owners, DestroyedOnce, Deleting, Dying, SettingUp
  <2>6. Gates(sc)'
    <3>1. CASE gChannel = NULL
      BY <2>1, <2>3, <3>1 DEF Gates, Doomed, Deleting
    <3>2. CASE gChannel # NULL
      <4>1. \A u \in Clients : cpc[u] \notin Deleting
        BY <3>2 DEF Gates
      <4>2. setup \/ cpc[sc] \in {"rundown", "announce", "reply"}
        BY <3>2 DEF Gates
      <4> QED BY <2>1, <2>3, <3>2, <4>1, <4>2 DEF Gates, Doomed, Deleting
    <3> QED BY <3>1, <3>2
  <2> QED BY <2>2, <2>3, <2>5, <2>6
<1>3. CASE CloseGate(t)
  <2>1. /\ cpc[t] = "gate" /\ cpc'[t] = "drain" /\ gate' = "closed"
        /\ \A u \in Clients : u # t => cpc'[u] = cpc[u]
        /\ UNCHANGED <<gChannel, setup, refs, object, told, open, del, sender, alive, fault>>
    BY <1>0, <1>3 DEF CloseGate, At
  <2>2. TypeOK'
    BY <1>3, <2>1 DEF CloseGate, Goto, TypeOK
  <2>3. Counts' /\ BucketsOwned'
    BY <2>1, CountsKept, BucketsKept
  <2>4. Owners(sc)'
    BY <2>1 DEF Owners, DestroyedOnce, Deleting, Dying, SettingUp
  <2>5. InsideSet' = InsideSet
    BY <2>1 DEF InsideSet
  <2>6. gChannel = NULL /\ (setup \/ cpc[sc] \in {"rundown", "announce", "reply"})
        /\ \A u \in Clients : cpc[u] \in Deleting => u = t
    BY <2>1 DEF Gates, Deleting
  <2>7. NeverUp \/ Shut => Shut'
    BY <2>1, <2>5 DEF NeverUp, Shut, InsideSet, Inside
  <2>8. Gates(sc)'
    <3>1. \A u \in Clients : cpc'[u] \in Deleting => u = t
      BY <2>1, <2>6 DEF Deleting
    <3> QED BY <2>1, <2>6, <2>7, <3>1 DEF Gates, Doomed, Deleting
  <2> QED BY <2>2, <2>3, <2>4, <2>8
<1>4. CASE Drain(t)
  <2>1. /\ cpc[t] = "drain" /\ cpc'[t] = "clear" /\ refs = 0
        /\ \A u \in Clients : u # t => cpc'[u] = cpc[u]
        /\ UNCHANGED <<shared, object, told, open, del, sender, alive, fault>>
    BY <1>0, <1>4 DEF Drain, At
  <2>2. TypeOK'
    BY <1>4, <2>1 DEF Drain, Goto, TypeOK
  <2>3. Counts' /\ BucketsOwned' /\ (NeverUp' <=> NeverUp) /\ (Shut' <=> Shut)
    BY <2>1, CountsKept, BucketsKept, GatesKept
  <2>4. Owners(sc)'
    BY <2>1 DEF Owners, DestroyedOnce, Deleting, Dying, SettingUp
  <2>5. InsideSet = {}
    <3>1. IsFiniteSet(InsideSet)
      BY SendersAssumption, FS_Subset DEF InsideSet
    <3> QED BY <2>1, <3>1, FS_EmptySet DEF Counts
  <2>6. Shut \/ Doomed(sc)
    BY <2>1, <2>5 DEF Gates, Shut
  <2>7. Gates(sc)'
    BY <2>1, <2>3, <2>6 DEF Gates, Doomed, Deleting
  <2> QED BY <2>2, <2>3, <2>4, <2>7
<1>5. CASE ClearSetup(t)
  <2>1. /\ cpc[t] = "clear" /\ cpc'[t] = "die" /\ setup' = FALSE
        /\ \A u \in Clients : u # t => cpc'[u] = cpc[u]
        /\ UNCHANGED <<gChannel, gate, refs, object, told, open, del, sender, alive, fault>>
    BY <1>0, <1>5 DEF ClearSetup, At
  <2>2. TypeOK'
    BY <1>5, <2>1 DEF ClearSetup, Goto, TypeOK
  <2>3. Counts' /\ BucketsOwned' /\ (NeverUp' <=> NeverUp) /\ (Shut' <=> Shut)
    BY <2>1, CountsKept, BucketsKept, GatesKept
  <2>4. Owners(sc)'
    BY <2>1 DEF Owners, DestroyedOnce, Deleting, Dying, SettingUp
  <2>5. gChannel = NULL /\ \A u \in Clients : cpc[u] \in Deleting => u = t
    BY <2>1 DEF Gates, Deleting
  <2>6. \A u \in Clients : cpc'[u] \notin Deleting
    BY <2>1, <2>5 DEF Deleting
  <2>7. Shut \/ Doomed(sc)
    BY <2>1 DEF Gates
  <2>8. Gates(sc)'
    BY <2>1, <2>3, <2>5, <2>6, <2>7 DEF Gates, Doomed, Deleting
  <2> QED BY <2>2, <2>3, <2>4, <2>8
<1>6. CASE DestroySignal(t)
  <2>1. /\ cpc[t] = "die" /\ cpc'[t] = "free"
        /\ \A u \in Clients : u # t => cpc'[u] = cpc[u]
        /\ UNCHANGED <<shared, chan, free, low, answer, uniqueId, told, open, del, sender, alive, fault>>
    BY <1>0, <1>6 DEF DestroySignal, At
  <2>2. del[t] \in Channels
    BY <2>1 DEF Owners, Dying, TypeOK
  <2>3. TypeOK'
    <3>1. high' \in [Channels -> SUBSET Buckets]
      BY <1>6 DEF DestroySignal, TypeOK
    <3>2. message' \in [Channels -> [Buckets -> 0..MaxMessages]]
      <4>1. [b \in Buckets |-> Terminate] \in [Buckets -> 0..MaxMessages]
        BY BoundsAssumption DEF Terminate
      <4> QED BY <1>6, <4>1 DEF DestroySignal, TypeOK
    <3>3. cpc' = [cpc EXCEPT ![t] = "free"]
      BY <1>6 DEF DestroySignal, Goto
    <3> QED BY <2>1, <3>1, <3>2, <3>3 DEF TypeOK
  <2>4. Counts' /\ BucketsOwned' /\ (NeverUp' <=> NeverUp) /\ (Shut' <=> Shut)
    BY <2>1, CountsKept, BucketsKept, GatesKept
  <2>5. Owners(sc)'
    BY <2>1 DEF Owners, DestroyedOnce, Deleting, Dying, SettingUp
  <2>6. Gates(sc)'
    BY <2>1, <2>4 DEF Gates, Doomed, Deleting
  <2> QED BY <2>3, <2>4, <2>5, <2>6
<1>7. CASE DestroyFree(t)
  <2>1. /\ cpc[t] = "free" /\ cpc'[t] = "idle" /\ chan' = [chan EXCEPT ![del[t]] = "freed"]
        /\ del' = [del EXCEPT ![t] = NULL]
        /\ \A u \in Clients : u # t => cpc'[u] = cpc[u]
        /\ UNCHANGED <<shared, free, message, high, low, answer, uniqueId, told, open, sender, alive, fault>>
    BY <1>0, <1>7 DEF DestroyFree, At
  <2>2. del[t] \in Channels /\ del[t] # NULL /\ chan[del[t]] = "live" /\ del[t] # gChannel
    BY <2>1 DEF Owners, Dying, TypeOK
  <2>3. chan'[del[t]] = "freed" /\ \A c \in Channels : c # del[t] => chan'[c] = chan[c]
    BY <2>1, <2>2 DEF TypeOK
  <2>4. del'[t] = NULL /\ \A u \in Clients : u # t => del'[u] = del[u]
    BY <2>1 DEF TypeOK
  <2>5. TypeOK'
    <3>1. chan' \in [Channels -> {"unused", "live", "freed"}]
      BY <2>1 DEF TypeOK
    <3>2. del' \in [Clients -> Channels \cup {NULL}]
      BY <2>1 DEF TypeOK
    <3>3. cpc' = [cpc EXCEPT ![t] = "idle"]
      BY <1>7 DEF DestroyFree, Goto
    <3> QED BY <2>1, <3>1, <3>2, <3>3 DEF TypeOK
  <2>6. Counts' /\ BucketsOwned' /\ (NeverUp' <=> NeverUp) /\ (Shut' <=> Shut)
    <3>1. \A c \in Channels : chan'[c] # "unused" => chan[c] # "unused"
      BY <2>2, <2>3
    <3> QED BY <2>1, <3>1, CountsKept, BucketsKept, GatesKept
  <2>7. Owners(sc)'
    <3>1. \A u \in Clients : u # t /\ del[u] # NULL => del[u] # del[t] /\ del[u] \in Channels
      BY <2>2 DEF Owners, DestroyedOnce, TypeOK
    <3>2. gChannel # NULL => gChannel \in Channels
      BY DEF TypeOK
    <3>3. \A s \in Senders : arg[s] # NULL => arg[s] \in Channels /\ chan'[arg[s]] # "unused"
      BY <2>2, <2>3 DEF TypeOK, Owners
    <3>4. \A c \in Channels : chan[c] = "unused" => chan'[c] = "unused"
      BY <2>2, <2>3
    <3>5. \A u \in Clients : del'[u] # NULL => u # t
      BY <2>4
    <3>6. \A u \in Clients : del'[u] # NULL <=> cpc'[u] \in Deleting \cup Dying
      BY <2>1, <2>4 DEF Owners, Deleting, Dying
    <3>7. \A u \in Clients : del'[u] # NULL => chan'[del'[u]] = "live" /\ del'[u] # gChannel'
      BY <2>1, <2>3, <2>4, <3>1, <3>5 DEF Owners
    <3>8. gChannel' # NULL => chan'[gChannel'] = "live"
      BY <2>1, <2>2, <2>3, <3>2 DEF Owners
    <3>9. DestroyedOnce'
      BY <2>4, <3>5 DEF Owners, DestroyedOnce
    <3>10. (\A u \in Clients : cpc'[u] \in SettingUp => u = sc)
           /\ (cpc'[sc] = "create" => \E c \in Channels : chan'[c] = "unused")
      BY <2>1, <3>4 DEF Owners, SettingUp
    <3> QED BY <2>1, <3>3, <3>6, <3>7, <3>8, <3>9, <3>10 DEF Owners
  <2>8. Gates(sc)'
    BY <2>1, <2>6 DEF Gates, Doomed, Deleting
  <2> QED BY <2>5, <2>6, <2>7, <2>8
<1> QED BY <1>1, <1>2, <1>3, <1>4, <1>5, <1>6, <1>7

-----------------------------------------------------------------------------
(* What a step of one sender does to the counts ...                        *)
LEMMA SenderCounts ==
    ASSUME TypeOK, NEW s \in Senders, NEW x, spc' = [spc EXCEPT ![s] = x]
    PROVE  /\ spc'[s] = x /\ \A u \in Senders : u # s => spc'[u] = spc[u]
           /\ Cardinality(InsideSet) \in Nat /\ Cardinality(Pending) \in Nat
           /\ Cardinality(InsideSet') \in Nat /\ Cardinality(Pending') \in Nat
           /\ Cardinality(InsideSet') <= Cardinality(Senders) /\ Cardinality(Senders) \in Nat
           /\ (spc[s] \in Inside <=> x \in Inside)
                 => Cardinality(InsideSet') = Cardinality(InsideSet)
           /\ spc[s] \notin Inside /\ x \in Inside
                 => Cardinality(InsideSet') = Cardinality(InsideSet) + 1
           /\ spc[s] \in Inside /\ x \notin Inside
                 => Cardinality(InsideSet') = Cardinality(InsideSet) - 1
           /\ (s \in Pending <=> s \in Pending') => Cardinality(Pending') = Cardinality(Pending)
           /\ s \notin Pending /\ s \in Pending' => Cardinality(Pending') = Cardinality(Pending) + 1
           /\ s \in Pending /\ s \notin Pending' => Cardinality(Pending') = Cardinality(Pending) - 1
<1>1. spc'[s] = x /\ \A u \in Senders : u # s => spc'[u] = spc[u]
  BY DEF TypeOK
<1>2. /\ InsideSet \in SUBSET Senders /\ InsideSet' \in SUBSET Senders
      /\ Pending \in SUBSET Senders /\ Pending' \in SUBSET Senders
  BY DEF InsideSet, Pending
<1>3. /\ \A u \in Senders : u # s => (u \in InsideSet <=> u \in InsideSet')
      /\ \A u \in Senders : u # s => (u \in Pending <=> u \in Pending')
      /\ (s \in InsideSet <=> spc[s] \in Inside) /\ (s \in InsideSet' <=> x \in Inside)
  BY <1>1 DEF InsideSet, Pending
<1>4. Cardinality(InsideSet') <= Cardinality(Senders)
  <2>1. \A u \in Senders : u # s => (u \in InsideSet' <=> u \in InsideSet)
    BY <1>3
  <2> HIDE DEF InsideSet
  <2> QED BY <1>2, <2>1, OneMoves
<1> HIDE DEF InsideSet, Pending
<1>5. /\ Cardinality(InsideSet) \in Nat /\ Cardinality(InsideSet') \in Nat
      /\ Cardinality(Senders) \in Nat
      /\ s \in InsideSet /\ s \in InsideSet' => Cardinality(InsideSet') = Cardinality(InsideSet)
      /\ s \notin InsideSet /\ s \notin InsideSet' => Cardinality(InsideSet') = Cardinality(InsideSet)
      /\ s \notin InsideSet /\ s \in InsideSet' => Cardinality(InsideSet') = Cardinality(InsideSet) + 1
      /\ s \in InsideSet /\ s \notin InsideSet' => Cardinality(InsideSet') = Cardinality(InsideSet) - 1
  BY <1>2, <1>3, OneMoves
<1>6. /\ Cardinality(Pending) \in Nat /\ Cardinality(Pending') \in Nat
      /\ s \in Pending /\ s \in Pending' => Cardinality(Pending') = Cardinality(Pending)
      /\ s \notin Pending /\ s \notin Pending' => Cardinality(Pending') = Cardinality(Pending)
      /\ s \notin Pending /\ s \in Pending' => Cardinality(Pending') = Cardinality(Pending) + 1
      /\ s \in Pending /\ s \notin Pending' => Cardinality(Pending') = Cardinality(Pending) - 1
  BY <1>2, <1>3, OneMoves
<1> QED BY <1>1, <1>3, <1>4, <1>5, <1>6

(* ... and to the gate: who comes in has seen it open, and who gets to it  *)
(* has seen the channel announced.                                         *)
LEMMA SenderGates ==
    ASSUME NEW sc \in Clients, TypeOK, Gates(sc), NEW s \in Senders, NEW x,
           spc' = [spc EXCEPT ![s] = x], UNCHANGED <<gChannel, setup, gate, cpc>>,
           x \in Inside => spc[s] \in Inside \/ gate = "open",
           x \notin {"idle", "flag"} => spc[s] \notin {"idle", "flag"} \/ setup
    PROVE  Gates(sc)'
<1>1. spc'[s] = x /\ \A u \in Senders : u # s => spc'[u] = spc[u]
  BY DEF TypeOK
<1>2. Shut => Shut'
  BY <1>1 DEF Shut, InsideSet
<1>3. ~ setup /\ NeverUp => NeverUp'
  BY <1>1 DEF NeverUp
<1>4. Doomed(sc)' <=> Doomed(sc)
  BY DEF Doomed
<1> QED BY <1>2, <1>3, <1>4 DEF Gates

(* A sender that neither takes nor gives back a bucket.                    *)
LEMMA SenderBuckets ==
    ASSUME TypeOK, BucketsOwned, NEW s \in Senders, NEW x,
           spc' = [spc EXCEPT ![s] = x], UNCHANGED <<chan, free>>,
           x \in Holds <=> spc[s] \in Holds,
           \A u \in Senders : u # s \/ spc[s] \in Holds => arg'[u] = arg[u] /\ idx'[u] = idx[u],
           x = "take" => arg'[s] \in Channels /\ idx'[s] \in Buckets
    PROVE  BucketsOwned'
<1>1. spc'[s] = x /\ \A u \in Senders : u # s => spc'[u] = spc[u]
  BY DEF TypeOK
<1>2. \A u \in Senders : spc'[u] \in Holds <=> spc[u] \in Holds
  BY <1>1
<1>3. \A u \in Senders : spc[u] \in Holds => arg'[u] = arg[u] /\ idx'[u] = idx[u]
  OBVIOUS
<1>4. \A c \in Channels : HeldIn(c)' = HeldIn(c)
  BY <1>2, <1>3 DEF HeldIn
<1>5. \A u \in Senders : spc'[u] \in Holds \cup {"take"} => arg'[u] \in Channels /\ idx'[u] \in Buckets
  BY <1>1, <1>2, <1>3 DEF BucketsOwned
<1> QED BY <1>2, <1>3, <1>4, <1>5 DEF BucketsOwned

(* DsSendNotificationMessage up to the gate.                               *)
LEMMA ComingInKeepsRacesInv ==
    ASSUME NEW sc \in Clients, RacesInv(sc), NEW s \in Senders,
           SendBegin(s) \/ SendFlag(s) \/ SendGate(s)
    PROVE  RacesInv(sc)'
<1> USE DEF shared, object, client, RacesInv
<1>1. CASE SendBegin(s)
  <2>1. /\ spc[s] = "idle" /\ spc' = [spc EXCEPT ![s] = "flag"]
        /\ arg' = [arg EXCEPT ![s] = gChannel]
        /\ UNCHANGED <<shared, object, client, idx, mine, got, alive, fault>>
    BY <1>1 DEF SendBegin, SAt, SGoto
  <2>2. TypeOK'
    BY <2>1 DEF TypeOK
  <2>3. s \notin Pending /\ s \in Pending'
    BY <2>1, SenderCounts DEF Pending
  <2>4. Cardinality(InsideSet') = Cardinality(InsideSet)
    <3>1. "idle" \notin Inside /\ "flag" \notin Inside
      BY DEF Inside
    <3> QED BY <2>1, <3>1, SenderCounts
  <2>5. Cardinality(Pending') = Cardinality(Pending) + 1 /\ Cardinality(Pending) \in Nat
    BY <2>1, <2>3, SenderCounts
  <2>6. uniqueId + Cardinality(Pending) < MaxMessages
    <3> DEFINE Busy == {x \in Senders : spc[x] # "idle"}
    <3>1. IsFiniteSet(Busy) /\ Pending \subseteq Busy
      BY SendersAssumption, FS_Subset DEF Pending
    <3>2. Cardinality(Pending) <= Cardinality(Busy) /\ Cardinality(Busy) \in Nat
      BY <3>1, FS_Subset, FS_CardinalityType
    <3>3. uniqueId + Cardinality(Busy) < MaxMessages
      BY <1>1 DEF SendBegin
    <3>4. uniqueId \in Nat
      BY DEF TypeOK
    <3> HIDE DEF Busy
    <3> QED BY <2>5, <3>2, <3>3, <3>4, BoundsAssumption
  <2>7. Counts'
    <3>1. uniqueId \in Nat
      BY DEF TypeOK
    <3> QED BY <2>1, <2>4, <2>5, <2>6, <3>1, BoundsAssumption DEF Counts
  <2>8. Owners(sc)'
    <3>1. arg'[s] = gChannel /\ \A u \in Senders : u # s => arg'[u] = arg[u]
      BY <2>1 DEF TypeOK
    <3> QED BY <2>1, <3>1 DEF Owners, DestroyedOnce
  <2>9. Gates(sc)'
    <3>1. "flag" \notin Inside
      BY DEF Inside
    <3> QED BY <2>1, <3>1, SenderGates
  <2>10. BucketsOwned'
    <3>1. \A u \in Senders : u # s => arg'[u] = arg[u]
      BY <2>1 DEF TypeOK
    <3>2. "idle" \notin Holds /\ "flag" \notin Holds
      BY DEF Holds
    <3> QED BY <2>1, <3>1, <3>2, SenderBuckets
  <2> QED BY <2>2, <2>7, <2>8, <2>9, <2>10
<1>2. ASSUME SendFlag(s) \/ SendGate(s) PROVE RacesInv(sc)'
  <2>1. PICK x \in {"gate", "idle", "find"} :
          /\ spc' = [spc EXCEPT ![s] = x] /\ spc[s] \in {"flag", "gate"}
          /\ x = "gate" => spc[s] = "flag" /\ setup
          /\ x = "find" => spc[s] = "gate" /\ gate = "open" /\ refs' = refs + 1
          /\ x # "find" => refs' = refs
          /\ UNCHANGED <<gChannel, setup, gate, object, client, arg, idx, mine, got, alive, fault>>
    <3>1. CASE SendFlag(s)
      <4> DEFINE x == IF setup THEN "gate" ELSE "idle"
      <4>1. spc' = [spc EXCEPT ![s] = x] /\ x \in {"gate", "idle"} /\ spc[s] = "flag" /\ (x = "gate" => setup)
        BY <3>1 DEF SendFlag, SAt, SGoto
      <4>2. UNCHANGED <<gChannel, setup, gate, refs, object, client, arg, idx, mine, got, alive, fault>>
        BY <3>1 DEF SendFlag
      <4> HIDE DEF x
      <4> QED BY <4>1, <4>2
    <3>2. CASE SendGate(s)
      <4> DEFINE x == IF gate = "open" THEN "find" ELSE "idle"
      <4>1. spc' = [spc EXCEPT ![s] = x] /\ x \in {"find", "idle"} /\ spc[s] = "gate"
            /\ (x = "find" => gate = "open" /\ refs' = refs + 1) /\ (x # "find" => refs' = refs)
        BY <3>2 DEF SendGate, SAt, SGoto
      <4>2. UNCHANGED <<gChannel, setup, gate, object, client, arg, idx, mine, got, alive, fault>>
        BY <3>2 DEF SendGate
      <4> HIDE DEF x
      <4> QED BY <4>1, <4>2
    <3> QED BY <1>2, <3>1, <3>2
  <2>2. spc[s] \notin Inside /\ (x \in Inside <=> x = "find") /\ spc[s] \notin Holds /\ x \notin Holds
    BY <2>1 DEF Inside, Holds
  <2>3. s \in Pending
    BY <2>1 DEF Pending
  <2>4. refs' = Cardinality(InsideSet') /\ refs' \in 0..Cardinality(Senders)
    <3>1. /\ Cardinality(InsideSet') \in Nat /\ Cardinality(Senders) \in Nat
          /\ Cardinality(InsideSet') <= Cardinality(Senders)
          /\ x # "find" => Cardinality(InsideSet') = Cardinality(InsideSet)
          /\ x = "find" => Cardinality(InsideSet') = Cardinality(InsideSet) + 1
      BY <2>1, <2>2, SenderCounts
    <3>2. refs' = Cardinality(InsideSet')
      BY <2>1, <3>1 DEF Counts
    <3> QED BY <3>1, <3>2
  <2>5. uniqueId' + Cardinality(Pending') <= MaxMessages
    <3>0. /\ Cardinality(Pending) \in Nat /\ Cardinality(Pending') \in Nat
          /\ s \in Pending' => Cardinality(Pending') = Cardinality(Pending)
          /\ s \notin Pending' => Cardinality(Pending') = Cardinality(Pending) - 1
      BY <2>1, <2>3, SenderCounts
    <3>1. Cardinality(Pending') <= Cardinality(Pending)
      BY <3>0
    <3>2. uniqueId \in Nat /\ uniqueId' = uniqueId
      BY <2>1 DEF TypeOK
    <3> QED BY <3>0, <3>1, <3>2, BoundsAssumption DEF Counts
  <2>6. TypeOK'
    BY <2>1, <2>4 DEF TypeOK, Inside
  <2>7. Owners(sc)'
    BY <2>1 DEF Owners, DestroyedOnce
  <2>8. Gates(sc)'
    BY <2>1, <2>2, SenderGates
  <2>9. BucketsOwned'
    BY <2>1, <2>2, SenderBuckets
  <2> QED BY <2>4, <2>5, <2>6, <2>7, <2>8, <2>9 DEF Counts
<1> QED BY <1>1, <1>2

(* What all the steps from the gate to the way out share.                  *)
LEMMA InsideStep ==
    ASSUME NEW sc \in Clients, RacesInv(sc), NEW s \in Senders, NEW x \in Inside,
           spc[s] \in Inside, spc' = [spc EXCEPT ![s] = x],
           UNCHANGED <<shared, client, chan, arg>>
    PROVE  /\ Owners(sc)' /\ Gates(sc)' /\ refs' = Cardinality(InsideSet')
           /\ spc'[s] = x /\ \A u \in Senders : u # s => spc'[u] = spc[u]
           /\ UNCHANGED uniqueId /\ (x \in {"find", "take", "post"} => spc[s] \in {"find", "take", "post"})
                 => Counts'
<1> USE DEF RacesInv, shared, client
<1>1. Owners(sc)'
  BY DEF Owners, DestroyedOnce
<1>2. Gates(sc)'
  <2>1. x \notin {"idle", "flag"} /\ spc[s] \notin {"idle", "flag"}
    BY DEF Inside
  <2> QED BY <2>1, SenderGates
<1>3. refs' = Cardinality(InsideSet')
  BY SenderCounts DEF Counts
<1>4. spc'[s] = x /\ \A u \in Senders : u # s => spc'[u] = spc[u]
  BY SenderCounts
<1>5. ASSUME UNCHANGED uniqueId, x \in {"find", "take", "post"} => spc[s] \in {"find", "take", "post"}
      PROVE  Counts'
  <2>1. s \in Pending' => s \in Pending
    BY <1>4, <1>5 DEF Pending, Inside
  <2>2. /\ Cardinality(Pending) \in Nat /\ Cardinality(Pending') \in Nat
        /\ (s \in Pending <=> s \in Pending') => Cardinality(Pending') = Cardinality(Pending)
        /\ s \in Pending /\ s \notin Pending' => Cardinality(Pending') = Cardinality(Pending) - 1
    BY SenderCounts
  <2>3. Cardinality(Pending') <= Cardinality(Pending)
    BY <2>1, <2>2
  <2>4. uniqueId \in Nat
    BY DEF TypeOK
  <2> QED BY <1>3, <1>5, <2>2, <2>3, <2>4, BoundsAssumption DEF Counts
<1> QED BY <1>1, <1>2, <1>3, <1>4, <1>5

(* DsAcquireChannelBucket.                                                 *)
LEMMA AcquireKeepsRacesInv ==
    ASSUME NEW sc \in Clients, RacesInv(sc), NEW s \in Senders,
           SendFind(s) \/ SendFault(s) \/ SendTake(s)
    PROVE  RacesInv(sc)'
<1> USE DEF shared, object, client, sender, RacesInv
<1>1. CASE SendFind(s)
  <2>1. /\ spc[s] = "find" /\ arg[s] \in Channels
        /\ UNCHANGED <<shared, object, client, arg, mine, got, alive, fault>>
    BY <1>1 DEF SendFind, SAt, Usable, TypeOK
  <2>2. PICK x \in {"leave", "take"} :
          /\ spc' = [spc EXCEPT ![s] = x] /\ \A u \in Senders : u # s => idx'[u] = idx[u]
          /\ idx' \in [Senders -> Buckets \cup {0}] /\ (x = "take" => idx'[s] \in Buckets)
    <3>1. CASE free[arg[s]] = {}
      BY <1>1, <3>1 DEF SendFind, SGoto, TypeOK
    <3>2. CASE free[arg[s]] # {}
      <4>1. spc' = [spc EXCEPT ![s] = "take"] /\ idx' = [idx EXCEPT ![s] = Largest(free[arg[s]])]
        BY <1>1, <3>2 DEF SendFind, SGoto
      <4>2. free[arg[s]] \in SUBSET Buckets
        BY <2>1 DEF TypeOK
      <4>3. Largest(free[arg[s]]) \in Buckets
        BY <3>2, <4>2, LargestExists
      <4> QED BY <4>1, <4>3 DEF TypeOK
    <3> QED BY <3>1, <3>2
  <2>3. x \in Inside /\ "find" \in Inside /\ x \notin Holds /\ "find" \notin Holds
    BY DEF Inside, Holds
  <2>4. Owners(sc)' /\ Gates(sc)' /\ Counts'
    BY <2>1, <2>2, <2>3, InsideStep
  <2>5. BucketsOwned'
    BY <2>1, <2>2, <2>3, SenderBuckets
  <2>6. TypeOK'
    BY <2>1, <2>2, <2>3 DEF TypeOK
  <2> QED BY <2>4, <2>5, <2>6
<1>2. CASE SendFault(s)
  <2>1. fault' \in {"null", "freed"} /\ UNCHANGED <<shared, object, client, sender, alive>>
    BY <1>2 DEF SendFault
  <2>2. Counts' /\ BucketsOwned' /\ (NeverUp' <=> NeverUp) /\ (Shut' <=> Shut)
    BY <2>1, CountsKept, BucketsKept, GatesKept
  <2>3. TypeOK'
    BY <2>1 DEF TypeOK
  <2> QED BY <2>1, <2>2, <2>3 DEF Owners, DestroyedOnce, Gates, Doomed
<1>3. CASE SendTake(s)
  <2>1. /\ spc[s] = "take" /\ free' = [free EXCEPT ![arg[s]] = @ \ {idx[s]}]
        /\ UNCHANGED <<shared, chan, message, high, low, answer, uniqueId, client,
                       arg, idx, mine, got, alive, fault>>
    BY <1>3 DEF SendTake, SAt
  <2>2. arg[s] \in Channels /\ idx[s] \in Buckets /\ chan[arg[s]] # "unused"
    BY <2>1, BoundsAssumption DEF BucketsOwned, Owners, NULL, Channels
  <2>3. /\ free'[arg[s]] = free[arg[s]] \ {idx[s]}
        /\ \A c \in Channels : c # arg[s] => free'[c] = free[c]
        /\ free' \in [Channels -> SUBSET Buckets]
    BY <2>1, <2>2 DEF TypeOK
  <2>4. CASE idx[s] \in free[arg[s]]
    <3>1. spc' = [spc EXCEPT ![s] = "post"]
      BY <1>3, <2>4 DEF SendTake, SGoto
    <3>2. "post" \in Inside /\ "take" \in Inside /\ "post" \in Holds /\ "take" \notin Holds
      BY DEF Inside, Holds
    <3>3. Owners(sc)' /\ Gates(sc)' /\ Counts' /\ spc'[s] = "post"
          /\ \A u \in Senders : u # s => spc'[u] = spc[u]
      BY <2>1, <3>1, <3>2, InsideStep
    <3>4. TypeOK'
      BY <2>1, <2>3, <3>1, <3>2 DEF TypeOK
    <3>5. idx[s] \notin HeldIn(arg[s])
      BY <2>2, <2>4 DEF BucketsOwned
    <3>6. \A u \in Senders : spc[u] \in Holds /\ arg[u] = arg[s] => idx[u] # idx[s]
      BY <3>5 DEF HeldIn
    <3>7. HeldIn(arg[s])' = HeldIn(arg[s]) \cup {idx[s]}
      BY <2>1, <3>2, <3>3 DEF HeldIn
    <3>8. \A c \in Channels : c # arg[s] => HeldIn(c)' = HeldIn(c)
      BY <2>1, <3>2, <3>3 DEF HeldIn
    <3>9. BucketsOwned'
      <4>1. \A c \in Channels : chan'[c] # "unused" => free'[c] = Buckets \ HeldIn(c)'
        <5> SUFFICES ASSUME NEW c \in Channels, chan[c] # "unused"
                     PROVE  free'[c] = Buckets \ HeldIn(c)'
          BY <2>1
        <5>1. free[c] = Buckets \ HeldIn(c)
          BY DEF BucketsOwned
        <5>2. CASE c = arg[s]
          <6>1. HeldIn(c)' = HeldIn(c) \cup {idx[s]}
            BY <2>1, <3>7, <5>2
          <6>2. free'[c] = free[c] \ {idx[s]}
            BY <2>3, <5>2
          <6> QED BY <5>1, <6>1, <6>2
        <5>3. CASE c # arg[s]
          <6>1. HeldIn(c)' = HeldIn(c)
            BY <3>8, <5>3
          <6>2. free'[c] = free[c]
            BY <2>3, <5>3
          <6> QED BY <5>1, <6>1, <6>2
        <5> QED BY <5>2, <5>3
      <4>2. \A s1, s2 \in Senders :
               spc'[s1] \in Holds /\ spc'[s2] \in Holds /\ arg'[s1] = arg'[s2] /\ idx'[s1] = idx'[s2]
                  => s1 = s2
        BY <2>1, <3>2, <3>3, <3>6 DEF BucketsOwned
      <4>3. \A u \in Senders : spc'[u] \in Holds \cup {"take"} => arg'[u] \in Channels /\ idx'[u] \in Buckets
        BY <2>1, <2>2, <3>3 DEF BucketsOwned
      <4> QED BY <4>1, <4>2, <4>3 DEF BucketsOwned
    <3> QED BY <3>3, <3>4, <3>9
  <2>5. CASE idx[s] \notin free[arg[s]]
    <3>1. spc' = [spc EXCEPT ![s] = "find"]
      BY <1>3, <2>5 DEF SendTake, SGoto
    <3>2. "find" \in Inside /\ "take" \in Inside /\ "find" \notin Holds /\ "take" \notin Holds
      BY DEF Inside, Holds
    <3>3. Owners(sc)' /\ Gates(sc)' /\ Counts'
      BY <2>1, <3>1, <3>2, InsideStep
    <3>4. TypeOK'
      BY <2>1, <2>3, <3>1, <3>2 DEF TypeOK
    <3>5. free' = free
      BY <2>1, <2>5, <2>2 DEF TypeOK
    <3>6. BucketsOwned'
      BY <2>1, <3>1, <3>2, <3>5, SenderBuckets
    <3> QED BY <3>3, <3>4, <3>6
  <2> QED BY <2>4, <2>5
<1> QED BY <1>1, <1>2, <1>3

(* The message, the answer, DsReleaseChannelBucket and the way out.        *)
LEMMA SendKeepsRacesInv ==
    ASSUME NEW sc \in Clients, RacesInv(sc), NEW s \in Senders,
           SendPost(s) \/ SendWait(s) \/ SendRelease(s) \/ SendLeave(s)
    PROVE  RacesInv(sc)'
<1> USE DEF shared, object, client, sender, RacesInv
<1>0. ASSUME spc[s] \in Holds PROVE arg[s] \in Channels /\ idx[s] \in Buckets /\ chan[arg[s]] # "unused"
  BY <1>0, BoundsAssumption DEF BucketsOwned, Owners, NULL, Channels
<1>1. CASE SendPost(s)
  <2>1. /\ spc[s] = "post" /\ spc' = [spc EXCEPT ![s] = "wait"] /\ uniqueId' = uniqueId + 1
        /\ mine' = [mine EXCEPT ![s] = uniqueId + 1]
        /\ message' = [message EXCEPT ![arg[s]][idx[s]] = uniqueId + 1]
        /\ high' = [high EXCEPT ![arg[s]] = @ \cup {idx[s]}]
        /\ UNCHANGED <<shared, chan, free, low, answer, client, arg, idx, got, alive, fault>>
    BY <1>1 DEF SendPost, SAt, SGoto
  <2>2. "post" \in Inside /\ "wait" \in Inside /\ "post" \in Holds /\ "wait" \in Holds
    BY DEF Inside, Holds
  <2>3. arg[s] \in Channels /\ idx[s] \in Buckets
    BY <1>0, <2>1, <2>2
  <2>4. /\ Owners(sc)' /\ Gates(sc)' /\ refs' = Cardinality(InsideSet')
        /\ spc'[s] = "wait" /\ \A u \in Senders : u # s => spc'[u] = spc[u]
    BY <2>1, <2>2, InsideStep
  <2>5. s \in Pending /\ s \notin Pending'
    BY <2>1, <2>4 DEF Pending
  <2>6. /\ Cardinality(Pending') = Cardinality(Pending) - 1
        /\ Cardinality(Pending) \in Nat /\ Cardinality(Pending') \in Nat
    BY <2>1, <2>5, SenderCounts
  <2>7. uniqueId \in Nat /\ uniqueId + 1 + Cardinality(Pending') <= MaxMessages
    <3>1. uniqueId \in Nat
      BY DEF TypeOK
    <3> QED BY <2>6, <3>1, BoundsAssumption DEF Counts
  <2>8. uniqueId + 1 \in 0..MaxMessages
    BY <2>6, <2>7, BoundsAssumption
  <2>9. TypeOK'
    <3>1. message' \in [Channels -> [Buckets -> 0..MaxMessages]]
      BY <2>1, <2>3, <2>8 DEF TypeOK
    <3>2. high' \in [Channels -> SUBSET Buckets]
      BY <2>1, <2>3 DEF TypeOK
    <3>3. mine' \in [Senders -> 0..MaxMessages]
      BY <2>1, <2>8 DEF TypeOK
    <3>4. spc' \in [Senders -> {"idle", "flag", "gate"} \cup Inside]
      BY <2>1, <2>2 DEF TypeOK
    <3> QED BY <2>1, <2>8, <3>1, <3>2, <3>3, <3>4 DEF TypeOK
  <2>10. BucketsOwned'
    BY <2>1, <2>2, SenderBuckets
  <2> QED BY <2>1, <2>4, <2>7, <2>9, <2>10 DEF Counts
<1>2. CASE SendWait(s)
  <2>1. /\ spc[s] = "wait" /\ spc' = [spc EXCEPT ![s] = "release"]
        /\ low' = [low EXCEPT ![arg[s]] = @ \ {idx[s]}]
        /\ got' = [got EXCEPT ![s] = answer[arg[s]][idx[s]]]
        /\ UNCHANGED <<shared, chan, free, message, high, answer, uniqueId, client,
                       arg, idx, mine, alive, fault>>
    BY <1>2 DEF SendWait, SAt, SGoto
  <2>2. "wait" \in Inside /\ "release" \in Inside /\ "wait" \in Holds /\ "release" \in Holds
    BY DEF Inside, Holds
  <2>3. arg[s] \in Channels /\ idx[s] \in Buckets
    BY <1>0, <2>1, <2>2
  <2>4. Owners(sc)' /\ Gates(sc)' /\ Counts'
    BY <2>1, <2>2, InsideStep
  <2>5. TypeOK'
    <3>1. low' \in [Channels -> SUBSET Buckets]
      BY <2>1, <2>3 DEF TypeOK
    <3>2. got' \in [Senders -> 0..MaxMessages]
      BY <2>1, <2>3 DEF TypeOK
    <3>3. spc' \in [Senders -> {"idle", "flag", "gate"} \cup Inside]
      BY <2>1, <2>2 DEF TypeOK
    <3> QED BY <2>1, <3>1, <3>2, <3>3 DEF TypeOK
  <2>6. BucketsOwned'
    BY <2>1, <2>2, SenderBuckets
  <2> QED BY <2>4, <2>5, <2>6
<1>3. CASE SendRelease(s)
  <2>1. /\ spc[s] = "release" /\ spc' = [spc EXCEPT ![s] = "leave"]
        /\ free' = [free EXCEPT ![arg[s]] = @ \cup {idx[s]}]
        /\ UNCHANGED <<shared, chan, message, high, low, answer, uniqueId, client,
                       arg, idx, mine, got, alive, fault>>
    BY <1>3 DEF SendRelease, SAt, SGoto
  <2>2. "release" \in Inside /\ "leave" \in Inside /\ "release" \in Holds /\ "leave" \notin Holds
    BY DEF Inside, Holds
  <2>3. arg[s] \in Channels /\ idx[s] \in Buckets /\ chan[arg[s]] # "unused"
    BY <1>0, <2>1, <2>2
  <2>4. /\ Owners(sc)' /\ Gates(sc)' /\ Counts'
        /\ spc'[s] = "leave" /\ \A u \in Senders : u # s => spc'[u] = spc[u]
    BY <2>1, <2>2, InsideStep
  <2>5. /\ free'[arg[s]] = free[arg[s]] \cup {idx[s]}
        /\ \A c \in Channels : c # arg[s] => free'[c] = free[c]
        /\ free' \in [Channels -> SUBSET Buckets]
    BY <2>1, <2>3 DEF TypeOK
  <2>6. TypeOK'
    BY <2>1, <2>2, <2>5 DEF TypeOK
  <2>7. \A u \in Senders : u # s /\ spc[u] \in Holds /\ arg[u] = arg[s] => idx[u] # idx[s]
    BY <2>1, <2>2 DEF BucketsOwned
  <2>8. HeldIn(arg[s])' = HeldIn(arg[s]) \ {idx[s]}
    BY <2>1, <2>2, <2>4, <2>7 DEF HeldIn
  <2>9. \A c \in Channels : c # arg[s] => HeldIn(c)' = HeldIn(c)
    BY <2>1, <2>2, <2>4 DEF HeldIn
  <2>10. \A c \in Channels : chan'[c] # "unused" => free'[c] = Buckets \ HeldIn(c)'
    <3> SUFFICES ASSUME NEW c \in Channels, chan[c] # "unused"
                 PROVE  free'[c] = Buckets \ HeldIn(c)'
      BY <2>1
    <3>1. free[c] = Buckets \ HeldIn(c)
      BY DEF BucketsOwned
    <3>2. CASE c = arg[s]
      <4>1. HeldIn(c)' = HeldIn(c) \ {idx[s]}
        BY <2>1, <2>8, <3>2
      <4>2. free'[c] = free[c] \cup {idx[s]}
        BY <2>5, <3>2
      <4> QED BY <2>3, <3>1, <4>1, <4>2
    <3>3. CASE c # arg[s]
      <4>1. HeldIn(c)' = HeldIn(c)
        BY <2>9, <3>3
      <4>2. free'[c] = free[c]
        BY <2>5, <3>3
      <4> QED BY <3>1, <4>1, <4>2
    <3> QED BY <3>2, <3>3
  <2>11. BucketsOwned'
    BY <2>1, <2>2, <2>4, <2>10 DEF BucketsOwned
  <2> QED BY <2>4, <2>6, <2>11
<1>4. CASE SendLeave(s)
  <2>1. /\ spc[s] = "leave" /\ spc' = [spc EXCEPT ![s] = "idle"] /\ refs' = refs - 1
        /\ UNCHANGED <<gChannel, setup, gate, object, client, arg, idx, mine, got, alive, fault>>
    BY <1>4 DEF SendLeave, SAt, SGoto
  <2>2. "leave" \in Inside /\ "idle" \notin Inside /\ "leave" \notin Holds /\ "idle" \notin Holds
    BY DEF Inside, Holds
  <2>3. /\ Cardinality(InsideSet') = Cardinality(InsideSet) - 1
        /\ Cardinality(InsideSet') \in Nat /\ Cardinality(Senders) \in Nat
        /\ Cardinality(InsideSet') <= Cardinality(Senders)
        /\ spc'[s] = "idle" /\ \A u \in Senders : u # s => spc'[u] = spc[u]
    BY <2>1, <2>2, SenderCounts
  <2>4. refs' = Cardinality(InsideSet') /\ refs' \in 0..Cardinality(Senders)
    <3>1. refs' = Cardinality(InsideSet')
      BY <2>1, <2>3 DEF Counts
    <3> QED BY <2>3, <3>1
  <2>5. Pending' = Pending
    BY <2>1, <2>3 DEF Pending
  <2>6. Counts'
    BY <2>1, <2>4, <2>5 DEF Counts
  <2>7. TypeOK'
    <3>1. spc' \in [Senders -> {"idle", "flag", "gate"} \cup Inside]
      BY <2>1 DEF TypeOK
    <3> QED BY <2>1, <2>4, <3>1 DEF TypeOK
  <2>8. Owners(sc)'
    BY <2>1 DEF Owners, DestroyedOnce
  <2>9. Gates(sc)'
    BY <2>1, <2>2, SenderGates
  <2>10. BucketsOwned'
    BY <2>1, <2>2, SenderBuckets
  <2> QED BY <2>6, <2>7, <2>8, <2>9, <2>10
<1> QED BY <1>1, <1>2, <1>3, <1>4

-----------------------------------------------------------------------------
LEMMA RacesInvInit ==
    ASSUME NEW sc \in Clients, Init
    PROVE  RacesInv(sc)
<1>1. InsideSet = {} /\ Pending = {}
  BY DEF Init, InsideSet, Pending, Inside
<1>2. Cardinality(Senders) \in Nat
  BY SendersAssumption, FS_CardinalityType
<1>3. TypeOK
  <2>1. spc \in [Senders -> {"idle", "flag", "gate"} \cup Inside]
    BY DEF Init
  <2>2. [b \in Buckets |-> Terminate] \in [Buckets -> 0..MaxMessages] /\ 0 \in 0..MaxMessages
    BY BoundsAssumption DEF Terminate
  <2>3. /\ message \in [Channels -> [Buckets -> 0..MaxMessages]]
        /\ answer \in [Channels -> [Buckets -> 0..MaxMessages]]
    BY <2>2 DEF Init
  <2>4. mine \in [Senders -> 0..MaxMessages] /\ got \in [Senders -> 0..MaxMessages]
    BY <2>2 DEF Init
  <2>5. refs \in 0..Cardinality(Senders) /\ uniqueId \in 0..MaxMessages
    BY <1>2, <2>2 DEF Init
  <2>6. /\ chan \in [Channels -> {"unused", "live", "freed"}]
        /\ free \in [Channels -> SUBSET Buckets]
        /\ high \in [Channels -> SUBSET Buckets] /\ low \in [Channels -> SUBSET Buckets]
    BY DEF Init
  <2> QED BY <2>1, <2>3, <2>4, <2>5, <2>6 DEF Init, TypeOK
<1>4. Counts
  BY <1>1, FS_EmptySet, BoundsAssumption DEF Init, Counts
<1>5. Owners(sc)
  BY DEF Init, Owners, DestroyedOnce, Deleting, Dying, SettingUp
<1>6. Gates(sc)
  BY DEF Init, Gates, Deleting, NeverUp
<1>7. BucketsOwned
  BY DEF Init, BucketsOwned, Holds
<1> QED BY <1>3, <1>4, <1>5, <1>6, <1>7 DEF RacesInv

LEMMA RacesInvKept ==
    ASSUME NEW sc \in Clients, SetupClients \subseteq {sc}, RacesInv(sc), [Next]_vars
    PROVE  RacesInv(sc)'
<1> USE DEF shared, object, client, sender
<1>1. ASSUME NEW t \in Clients,
             Open(t) \/ Close(t) \/ SetupBegin(t) \/ TeardownBegin(t) \/ ClientStep(t)
      PROVE  RacesInv(sc)'
  BY <1>1, RequestsKeepRacesInv, SetupKeepsRacesInv, TeardownKeepsRacesInv DEF ClientStep
<1>2. ASSUME NEW s \in Senders, SendBegin(s) \/ SenderStep(s)
      PROVE  RacesInv(sc)'
  BY <1>2, ComingInKeepsRacesInv, AcquireKeepsRacesInv, SendKeepsRacesInv DEF SenderStep
<1>3. ASSUME NEW c \in Channels, NEW b \in Buckets, HelperAnswer(c, b)
      PROVE  RacesInv(sc)'
  <2> USE DEF RacesInv
  <2>1. /\ high' = [high EXCEPT ![c] = @ \ {b}] /\ answer' = [answer EXCEPT ![c][b] = message[c][b]]
        /\ low' = [low EXCEPT ![c] = @ \cup {b}]
        /\ UNCHANGED <<shared, chan, free, message, uniqueId, client, sender, alive, fault>>
    BY <1>3 DEF HelperAnswer
  <2>2. TypeOK'
    <3>1. high' \in [Channels -> SUBSET Buckets] /\ low' \in [Channels -> SUBSET Buckets]
      BY <2>1 DEF TypeOK
    <3>2. answer' \in [Channels -> [Buckets -> 0..MaxMessages]]
      BY <2>1 DEF TypeOK
    <3> QED BY <2>1, <3>1, <3>2 DEF TypeOK
  <2>3. Counts' /\ BucketsOwned' /\ (NeverUp' <=> NeverUp) /\ (Shut' <=> Shut)
    BY <2>1, CountsKept, BucketsKept, GatesKept
  <2> QED BY <2>1, <2>2, <2>3 DEF Owners, DestroyedOnce, Gates, Doomed
<1>4. ASSUME HelperDies \/ Stopped \/ UNCHANGED vars
      PROVE  RacesInv(sc)'
  <2> USE DEF RacesInv
  <2>1. UNCHANGED <<shared, object, client, sender, fault>> /\ alive' \in BOOLEAN
    BY <1>4 DEF HelperDies, Stopped, vars, TypeOK
  <2>2. Counts' /\ BucketsOwned' /\ (NeverUp' <=> NeverUp) /\ (Shut' <=> Shut)
    BY <2>1, CountsKept, BucketsKept, GatesKept
  <2>3. TypeOK'
    BY <2>1 DEF TypeOK
  <2> QED BY <2>1, <2>2, <2>3 DEF Owners, DestroyedOnce, Gates, Doomed
<1> QED BY <1>1, <1>2, <1>3, <1>4 DEF Next

(* "The race winner performs the channel destruction" (driver.c:371): any  *)
(* number of threads may tear the channel down and close the device at the *)
(* same time, and each channel is destroyed by one of them, as long as the *)
(* setup requests come from one thread.                                    *)
THEOREM RaceHasOneWinner ==
    ASSUME NEW sc \in Clients, SetupClients \subseteq {sc}
    PROVE  Spec => []OneDestroyer
<1>1. Init => RacesInv(sc)
  BY RacesInvInit
<1>2. RacesInv(sc) /\ [Next]_vars => RacesInv(sc)'
  BY RacesInvKept
<1>3. RacesInv(sc) => OneDestroyer
  BY DEF RacesInv, Owners, OneDestroyer
<1> QED BY <1>1, <1>2, <1>3, PTL DEF Spec

(* DsAcquireChannelBucket and DsReleaseChannelBucket, for any number of    *)
(* senders and buckets: a bucket has one owner at a time, none is lost and *)
(* none is given back twice (the NT_ASSERT of channel.c:388), whatever the *)
(* threads that take the channel down do meanwhile.                        *)
THEOREM BucketsHaveOneOwner ==
    ASSUME NEW sc \in Clients, SetupClients \subseteq {sc}
    PROVE  Spec => []BucketsAccounted
<1>1. Init => RacesInv(sc)
  BY RacesInvInit
<1>2. RacesInv(sc) /\ [Next]_vars => RacesInv(sc)'
  BY RacesInvKept
<1>3. RacesInv(sc) => BucketsAccounted
  BY DEF RacesInv, BucketsOwned, BucketsAccounted, HeldIn
<1> QED BY <1>1, <1>2, <1>3, PTL DEF Spec

-----------------------------------------------------------------------------
(* What is left of a channel while handles are opened and closed: a channel *)
(* that is there is published or somebody's to destroy, the flag announces *)
(* one of these, and the last close of the device goes for the published   *)
(* one.                                                                    *)
Kept(sc) ==
    /\ \A c \in Channels : chan[c] = "live" => gChannel = c \/ \E t \in Clients : del[t] = c
    /\ setup => \/ gChannel # NULL
                \/ \E t \in Clients : cpc[t] \in Deleting
                \/ cpc[sc] = "reply"
    /\ open = {} /\ gChannel # NULL => \E t \in Clients : cpc[t] = "exchange"
    /\ cpc[sc] \in SettingUp => sc \in open

LEMMA RequestsKeepKept ==
    ASSUME NEW sc \in Clients, SetupClients \subseteq {sc}, RacesInv(sc), Kept(sc),
           NEW t \in Clients,
           Open(t) \/ Close(t) \/ SetupBegin(t) \/ TeardownBegin(t) \/ TeardownIdentify(t)
    PROVE  Kept(sc)'
<1> USE DEF RacesInv, Kept, SettingUp, Deleting, Dying, At, Goto, shared, object, client, sender
<1>0. cpc = [u \in Clients |-> cpc[u]] /\ open \subseteq Clients
  BY DEF TypeOK
<1>1. CASE Open(t)
  BY <1>0, <1>1 DEF Open
<1>2. CASE Close(t)
  <2>1. UNCHANGED <<gChannel, setup, chan, del>> /\ open' = open \ {t} /\ cpc[t] = "idle"
        /\ cpc' = [cpc EXCEPT ![t] = IF open' = {} /\ setup THEN "exchange" ELSE "idle"]
    BY <1>2 DEF Close
  <2>2. open' = {} /\ gChannel # NULL => setup
    BY <1>0, <2>1 DEF Gates
  <2>3. \A u \in Clients : cpc'[u] = cpc[u] \/ (u = t /\ cpc'[u] \in {"idle", "exchange"})
    BY <1>0, <2>1
  <2>4. \A u \in Clients : cpc[u] \in Deleting => cpc'[u] \in Deleting
    BY <2>1, <2>3
  <2>5. cpc[sc] = "reply" => cpc'[sc] = "reply"
    BY <2>1, <2>3
  <2>6. open' = {} /\ setup => cpc'[t] = "exchange"
    BY <1>0, <2>1
  <2>7. cpc'[sc] \in SettingUp => sc \in open'
    BY <2>1, <2>3
  <2> QED BY <2>1, <2>2, <2>4, <2>5, <2>6, <2>7
<1>3. CASE SetupBegin(t)
  <2>1. t = sc /\ ~ setup /\ gChannel = NULL
    BY <1>3 DEF SetupBegin, Gates
  <2> QED BY <1>0, <1>3, <2>1 DEF SetupBegin
<1>4. CASE TeardownBegin(t)
  BY <1>0, <1>4 DEF TeardownBegin
<1>5. CASE TeardownIdentify(t)
  BY <1>0, <1>5 DEF TeardownIdentify
<1> QED BY <1>1, <1>2, <1>3, <1>4, <1>5

LEMMA SetupKeepsKept ==
    ASSUME NEW sc \in Clients, RacesInv(sc), Kept(sc), NEW t \in Clients,
           \/ SetupCreate(t) \/ SetupNoMemory(t) \/ SetupPartial(t)
           \/ SetupRundown(t) \/ SetupAnnounce(t) \/ SetupReply(t)
    PROVE  Kept(sc)'
<1> USE DEF RacesInv, Kept, SettingUp, Deleting, Dying, At, Goto, shared, object, client, sender
<1>0. cpc = [u \in Clients |-> cpc[u]] /\ chan = [c \in Channels |-> chan[c]]
  BY DEF TypeOK
<1>1. t = sc \/ SetupPartial(t)
  BY DEF Owners, SetupCreate, SetupNoMemory, SetupRundown, SetupAnnounce, SetupReply
<1>2. CASE SetupCreate(t)
  <2>1. t = sc /\ cpc[sc] = "create" /\ ~ setup /\ gChannel = NULL /\ sc \in open
    BY <1>1, <1>2 DEF SetupCreate, SetupPartial, Gates, Owners
  <2> DEFINE c == CHOOSE x \in Channels : chan[x] = "unused"
  <2>2. /\ chan' = [chan EXCEPT ![c] = "live"] /\ gChannel' = c
        /\ UNCHANGED <<setup, open, del>> /\ cpc' = [cpc EXCEPT ![t] = "rundown"]
    BY <1>2 DEF SetupCreate
  <2> HIDE DEF c
  <2>3. NULL \notin Channels
    BY DEF NULL, Channels
  <2>4. \A x \in Channels : chan'[x] = "live" => gChannel' = x \/ \E u \in Clients : del'[u] = x
    BY <1>0, <2>1, <2>2, <2>3
  <2> QED BY <1>0, <2>1, <2>2, <2>4
<1>3. CASE SetupNoMemory(t)
  BY <1>0, <1>3 DEF SetupNoMemory
<1>4. CASE SetupPartial(t)
  BY <1>4 DEF SetupPartial
<1>5. CASE SetupRundown(t)
  BY <1>0, <1>5 DEF SetupRundown
<1>6. CASE SetupAnnounce(t)
  <2>1. t = sc
    BY <1>1, <1>6 DEF SetupAnnounce, SetupPartial
  <2> QED BY <1>0, <1>6, <2>1 DEF SetupAnnounce
<1>7. CASE SetupReply(t)
  BY <1>0, <1>7 DEF SetupReply
<1> QED BY <1>2, <1>3, <1>4, <1>5, <1>6, <1>7

LEMMA TeardownKeepsKept ==
    ASSUME NEW sc \in Clients, RacesInv(sc), Kept(sc), NEW t \in Clients,
           \/ Exchange(t) \/ CloseGate(t) \/ Drain(t)
           \/ ClearSetup(t) \/ DestroySignal(t) \/ DestroyFree(t)
    PROVE  Kept(sc)'
<1> USE DEF RacesInv, Kept, SettingUp, Deleting, Dying, At, Goto, shared, object, client, sender
<1>0. /\ cpc = [u \in Clients |-> cpc[u]] /\ chan = [c \in Channels |-> chan[c]]
      /\ del \in [Clients -> Channels \cup {NULL}] /\ gChannel \in Channels \cup {NULL}
  BY DEF TypeOK
<1>1. CASE Exchange(t)
  <2>1. /\ cpc[t] = "exchange" /\ del' = [del EXCEPT ![t] = gChannel] /\ gChannel' = NULL
        /\ cpc' = [cpc EXCEPT ![t] = IF gChannel = NULL THEN "idle" ELSE "gate"]
        /\ UNCHANGED <<setup, chan, open>>
    BY <1>1 DEF Exchange
  <2>2. del[t] = NULL
    BY <2>1 DEF Owners
  <2>3. NULL \notin Channels
    BY DEF NULL, Channels
  <2>4. del'[t] = gChannel /\ \A u \in Clients \ {t} : del'[u] = del[u]
    BY <1>0, <2>1
  <2>5. \A c \in Channels : chan'[c] = "live" => \E u \in Clients : del'[u] = c
    BY <2>1, <2>2, <2>3, <2>4
  <2>6. \A u \in Clients \ {t} : cpc'[u] = cpc[u]
    BY <1>0, <2>1
  <2>7. cpc'[t] = IF gChannel = NULL THEN "idle" ELSE "gate"
    BY <1>0, <2>1
  <2>8. setup' => (\E u \in Clients : cpc'[u] \in Deleting) \/ cpc'[sc] = "reply"
    BY <2>1, <2>6, <2>7
  <2>9. cpc'[sc] \in SettingUp => sc \in open'
    BY <2>1, <2>6, <2>7
  <2> QED BY <2>1, <2>5, <2>8, <2>9
<1>2. CASE CloseGate(t)
  BY <1>0, <1>2 DEF CloseGate
<1>3. CASE Drain(t)
  BY <1>0, <1>3 DEF Drain
<1>4. CASE ClearSetup(t)
  BY <1>0, <1>4 DEF ClearSetup
<1>5. CASE DestroySignal(t)
  BY <1>0, <1>5 DEF DestroySignal
<1>6. CASE DestroyFree(t)
  <2>1. /\ cpc[t] = "free" /\ chan' = [chan EXCEPT ![del[t]] = "freed"]
        /\ del' = [del EXCEPT ![t] = NULL] /\ cpc' = [cpc EXCEPT ![t] = "idle"]
        /\ UNCHANGED <<gChannel, setup, open>>
    BY <1>6 DEF DestroyFree
  <2>2. \A c \in Channels : chan'[c] = "live" => c # del[t] /\ chan[c] = "live"
    BY <1>0, <2>1
  <2>3. \A c \in Channels : chan'[c] = "live" => gChannel' = c \/ \E u \in Clients : del'[u] = c
    BY <1>0, <2>1, <2>2
  <2> QED BY <1>0, <2>1, <2>3
<1> QED BY <1>1, <1>2, <1>3, <1>4, <1>5, <1>6

LEMMA KeptKept ==
    ASSUME NEW sc \in Clients, SetupClients \subseteq {sc}, RacesInv(sc), Kept(sc), [Next]_vars
    PROVE  Kept(sc)'
<1> USE DEF shared, object, client, sender
<1>1. ASSUME NEW t \in Clients,
             Open(t) \/ Close(t) \/ SetupBegin(t) \/ TeardownBegin(t) \/ ClientStep(t)
      PROVE  Kept(sc)'
  BY <1>1, RequestsKeepKept, SetupKeepsKept, TeardownKeepsKept DEF ClientStep
<1>2. ASSUME UNCHANGED <<gChannel, setup, chan, open, cpc, del>>
      PROVE  Kept(sc)'
  BY <1>2 DEF Kept
<1>3. ASSUME NEW s \in Senders, SendBegin(s) \/ SenderStep(s)
      PROVE  UNCHANGED <<gChannel, setup, chan, open, cpc, del>>
  BY <1>3 DEF SendBegin, SenderStep, SendFlag, SendGate, SendFind, SendFault, SendTake,
              SendPost, SendWait, SendRelease, SendLeave
<1>4. ASSUME NEW c \in Channels, NEW b \in Buckets, HelperAnswer(c, b)
      PROVE  UNCHANGED <<gChannel, setup, chan, open, cpc, del>>
  BY <1>4 DEF HelperAnswer
<1>5. ASSUME HelperDies \/ Stopped \/ UNCHANGED vars
      PROVE  UNCHANGED <<gChannel, setup, chan, open, cpc, del>>
  BY <1>5 DEF HelperDies, Stopped, vars
<1> QED BY <1>1, <1>2, <1>3, <1>4, <1>5 DEF Next

(* DriverDeviceCreateClose leaves no channel behind the last handle, and   *)
(* DSH_GFL_CHANNEL_SETUP goes with it, whoever tears the channel down and  *)
(* closes a handle meanwhile, on any number of threads.  The setup requests *)
(* come from one thread: of two that overlap (channel.c:68) the first      *)
(* channel is lost, and no close finds it.                                 *)
THEOREM LastCloseTakesTheChannel ==
    ASSUME NEW sc \in Clients, SetupClients \subseteq {sc}
    PROVE  Spec => []NoChannelLeft
<1>1. Init => RacesInv(sc) /\ Kept(sc)
  <2>1. Init => Kept(sc)
    BY DEF Init, Kept, SettingUp
  <2> QED BY <2>1, RacesInvInit
<1>2. RacesInv(sc) /\ Kept(sc) /\ [Next]_vars => RacesInv(sc)' /\ Kept(sc)'
  BY RacesInvKept, KeptKept
<1>3. RacesInv(sc) /\ Kept(sc) => NoChannelLeft
  <2> SUFFICES ASSUME RacesInv(sc), Kept(sc), open = {}, \A t \in Clients : cpc[t] = "idle"
               PROVE  ~ setup /\ \A c \in Channels : chan[c] # "live"
    BY DEF NoChannelLeft
  <2>1. gChannel = NULL
    BY DEF Kept
  <2>2. \A t \in Clients : del[t] = NULL
    BY DEF RacesInv, Owners, Deleting, Dying
  <2>3. NULL \notin Channels
    BY DEF NULL, Channels
  <2>4. ~ setup
    BY <2>1 DEF Kept, Deleting
  <2> QED BY <2>1, <2>2, <2>3, <2>4 DEF Kept
<1> QED BY <1>1, <1>2, <1>3, PTL DEF Spec
=============================================================================
