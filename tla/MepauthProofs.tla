---------------------------- MODULE MepauthProofs ----------------------------
(***************************************************************************)
(* For every number of keys and requests, and however requests and timers  *)
(* interleave: the list of access keys keeps its types, stray timers are   *)
(* bounded, and a key whose requests do not overlap stays blocked until    *)
(* the timer of its block has fired.                                       *)
(***************************************************************************)
EXTENDS StartupProofs, FiniteSetTheorems

EntryTypes ==
  [State : States, ValidateCounter : 0 .. ValidationCounter - 1, ClearTimer : Timers]

TokenTypes ==
  /\ authInfoList \in [Aks -> EntryTypes \cup {NoEntry}]
  /\ stray \in [Aks -> Nat]
  /\ req \in [Requests -> [pc : Pcs, ak : Aks]]
  /\ raced \in SUBSET Aks

\* A request leaves at most one timer behind, and none once it is there.
MayAbandon == {"load", "clear", "judge", "count", "block", "validate"}
Abandoning(k) == {r \in Requests : req[r].pc \in MayAbandon /\ req[r].ak = k}
StrayInv(k) == stray[k] + Cardinality(Abandoning(k)) <= MaxStray + Cardinality(Requests)

\* The entry as the only request of its key finds it: under validation, or
\* none, or about to be blocked and with its timer stopped.
FindsEntry(r, k) ==
  authInfoList[k] # NoEntry =>
    /\ req[r].pc # "validate"
    /\ IF req[r].pc = "block" THEN authInfoList[k].State = "None"
                                   /\ authInfoList[k].ClearTimer = "stopped"
       ELSE authInfoList[k].State = "ValidationInProgress"

\* Of a key whose requests have not overlapped there is no stray timer and at
\* most one request, and an entry is in no list only while it is on its way
\* from one to the other.
AloneInv(k) ==
  k \notin raced =>
    /\ stray[k] = 0
    /\ \A q, r \in Requests : InFlight(q, k) /\ InFlight(r, k) => q = r
    /\ \A r \in Requests : InFlight(r, k) => FindsEntry(r, k)
    /\ authInfoList[k] # NoEntry /\ authInfoList[k].State = "None" =>
         \E r \in Requests : req[r].pc = "block" /\ req[r].ak = k

TokenInv == TokenTypes /\ \A k \in Aks : StrayInv(k) /\ AloneInv(k)

----------------------------------------------------------------------------
(* What the steps do.                                                      *)

LEMMA EntryFacts ==
  ASSUME TokenTypes, NEW k \in Aks, authInfoList[k] # NoEntry
  PROVE  /\ authInfoList[k] \in EntryTypes
         /\ authInfoList[k].State \in States /\ authInfoList[k].ClearTimer \in Timers
         /\ authInfoList[k].ValidateCounter \in 0 .. ValidationCounter - 1
  BY DEF TokenTypes, EntryTypes

LEMMA NoEntryIsNone == NoEntry \notin EntryTypes
<1>1. EntryTypes \subseteq Entries
  BY TokensAssumption DEF EntryTypes, Entries
<1> QED
  BY <1>1, TokensAssumption

\* A timer is left behind, at most one.
LEMMA AbandonEffect ==
  ASSUME TokenTypes, NEW k \in Aks, Abandon(k)
  PROVE  /\ stray' \in [Aks -> Nat]
         /\ stray'[k] = stray[k] \/ stray'[k] = stray[k] + 1
         /\ \A j \in Aks \ {k} : stray'[j] = stray[j]
         /\ authInfoList[k] = NoEntry \/ authInfoList[k].ClearTimer = "stopped" =>
              stray'[k] = stray[k]
  BY DEF TokenTypes, Abandon

\* A step of a request concerns its own key and nobody else's; once it leaves
\* a timer behind, it will leave no other.
LEMMA RequestEffect ==
  ASSUME TokenTypes, NEW r \in Requests, RequestStep(r), NEW k \in Aks, k = req[r].ak
  PROVE  /\ TokenTypes'
         /\ \A j \in Aks \ {k} : authInfoList'[j] = authInfoList[j] /\ stray'[j] = stray[j]
         /\ raced \subseteq raced' /\ raced' \subseteq raced \cup {k}
         /\ req[r].pc # "idle" /\ req'[r].ak = k
         /\ req[r].pc \in MayAbandon \/ req'[r].pc \notin MayAbandon
         /\ \A q \in Requests \ {r} : req'[q] = req[q]
         /\ \/ stray'[k] = stray[k]
            \/ /\ stray'[k] = stray[k] + 1
               /\ req[r].pc \in MayAbandon /\ req'[r].pc \notin MayAbandon
<1>0. /\ authInfoList \in [Aks -> EntryTypes \cup {NoEntry}] /\ stray \in [Aks -> Nat]
      /\ req \in [Requests -> [pc : Pcs, ak : Aks]] /\ raced \in SUBSET Aks
  BY DEF TokenTypes
<1>1. ASSUME NEW p \in Pcs, Go(r, p)
      PROVE  /\ req' \in [Requests -> [pc : Pcs, ak : Aks]]
             /\ req'[r].pc = p /\ req'[r].ak = k
             /\ \A q \in Requests \ {r} : req'[q] = req[q]
  BY <1>0, <1>1 DEF Go
<1>2. ASSUME NEW e \in EntryTypes \cup {NoEntry}, SetEntry(k, e)
      PROVE  /\ authInfoList' \in [Aks -> EntryTypes \cup {NoEntry}]
             /\ \A j \in Aks \ {k} : authInfoList'[j] = authInfoList[j]
  BY <1>0, <1>2 DEF SetEntry
<1>3. CASE Load(r)
  <2>1. /\ req[r].pc = "load" /\ UNCHANGED <<authInfoList, stray, raced>>
        /\ \E p \in {"idle", "error", "clear", "judge"} : Go(r, p)
    BY <1>3 DEF Load
  <2> QED
    BY <1>0, <1>1, <2>1 DEF Pcs, MayAbandon, TokenTypes
<1>4. CASE Clear(r)
  <2>1. req[r].pc = "clear" /\ Go(r, "token")
    BY <1>4 DEF Clear
  <2>2. authInfoList' = authInfoList \/ SetEntry(k, NoEntry)
    BY <1>4 DEF Clear
  <2>3. raced' = raced \/ raced' = raced \cup {k}
    BY <1>4 DEF Clear, RacedIf
  <2>4. stray' = stray \/ \E b \in BOOLEAN : stray' = [stray EXCEPT ![k] = IF b THEN @ + 1 ELSE @]
    BY <1>4 DEF Clear
  <2>5. /\ stray' \in [Aks -> Nat] /\ \A j \in Aks \ {k} : stray'[j] = stray[j]
        /\ stray'[k] = stray[k] \/ stray'[k] = stray[k] + 1
    BY <1>0, <2>4
  <2>6. /\ authInfoList' \in [Aks -> EntryTypes \cup {NoEntry}]
        /\ \A j \in Aks \ {k} : authInfoList'[j] = authInfoList[j]
    BY <1>0, <1>2, <2>2
  <2>7. /\ req' \in [Requests -> [pc : Pcs, ak : Aks]] /\ req'[r].pc = "token" /\ req'[r].ak = k
        /\ \A q \in Requests \ {r} : req'[q] = req[q]
    BY <1>1, <2>1 DEF Pcs
  <2> QED
    BY <1>0, <2>1, <2>3, <2>5, <2>6, <2>7 DEF MayAbandon, TokenTypes
<1>5. CASE Token(r)
  <2>1. /\ req[r].pc = "token" /\ UNCHANGED <<authInfoList, stray, raced>>
        /\ \E p \in {"idle", "error"} : Go(r, p)
    BY <1>5 DEF Token
  <2> QED
    BY <1>0, <1>1, <2>1 DEF Pcs, MayAbandon, TokenTypes
<1>6. CASE Judge(r)
  <2>1. /\ req[r].pc = "judge" /\ UNCHANGED <<authInfoList, stray, raced>>
        /\ \E p \in {"count", "validate"} : Go(r, p)
    BY <1>6 DEF Judge
  <2> QED
    BY <1>0, <1>1, <2>1 DEF Pcs, MayAbandon, TokenTypes
<1>7. CASE Count(r)
  <2>1. /\ req[r].pc = "count" /\ UNCHANGED stray
        /\ \E p \in {"idle", "block"} : Go(r, p)
    BY <1>7 DEF Count
  <2>2. raced' = raced \/ raced' = raced \cup {k}
    BY <1>7 DEF Count, RacedIf
  <2>3. authInfoList' = authInfoList \/ \E e \in EntryTypes : SetEntry(k, e)
    <3> DEFINE n == authInfoList[k].ValidateCounter + 1
               timer == authInfoList[k].ClearTimer
    <3>1. CASE authInfoList[k] = NoEntry
      BY <1>7, <3>1 DEF Count
    <3>2. CASE authInfoList[k] # NoEntry /\ n < ValidationCounter
      <4>1. n \in 0 .. ValidationCounter - 1
        BY <3>2, EntryFacts, TokensAssumption
      <4>2. [authInfoList[k] EXCEPT !.ValidateCounter = n] \in EntryTypes
        BY <3>2, <4>1, EntryFacts DEF EntryTypes
      <4>3. SetEntry(k, [authInfoList[k] EXCEPT !.ValidateCounter = n])
        BY <1>7, <3>2 DEF Count
      <4> QED
        BY <4>2, <4>3
    <3>3. CASE authInfoList[k] # NoEntry /\ ~(n < ValidationCounter)
      <4>1. Stopped(timer) \in Timers
        BY <3>3, EntryFacts DEF Stopped, Timers
      <4>2. [State |-> "None", ValidateCounter |-> 0, ClearTimer |-> Stopped(timer)] \in EntryTypes
        BY <4>1, TokensAssumption DEF EntryTypes, States
      <4>3. SetEntry(k, [State |-> "None", ValidateCounter |-> 0, ClearTimer |-> Stopped(timer)])
        BY <1>7, <3>3 DEF Count
      <4> QED
        BY <4>2, <4>3
    <3> QED
      BY <3>1, <3>2, <3>3
  <2>4. /\ authInfoList' \in [Aks -> EntryTypes \cup {NoEntry}]
        /\ \A j \in Aks \ {k} : authInfoList'[j] = authInfoList[j]
    BY <1>0, <1>2, <2>3
  <2> QED
    BY <1>0, <1>1, <2>1, <2>2, <2>4 DEF Pcs, MayAbandon, TokenTypes
<1>8. CASE Block(r)
  <2>1. req[r].pc = "block" /\ Go(r, "idle") /\ UNCHANGED raced
    BY <1>8 DEF Block
  <2>2. CASE UNCHANGED <<authInfoList, stray>>
    BY <1>0, <1>1, <2>1, <2>2 DEF Pcs, MayAbandon, TokenTypes
  <2>3. CASE /\ authInfoList[k] # NoEntry /\ Abandon(k)
             /\ SetEntry(k, [authInfoList[k] EXCEPT !.State = "UnderBlockList",
                                                    !.ClearTimer = "running"])
    <3>1. [authInfoList[k] EXCEPT !.State = "UnderBlockList", !.ClearTimer = "running"] \in EntryTypes
      BY <2>3, EntryFacts DEF EntryTypes, States, Timers
    <3>2. /\ authInfoList' \in [Aks -> EntryTypes \cup {NoEntry}]
          /\ \A j \in Aks \ {k} : authInfoList'[j] = authInfoList[j]
      BY <1>2, <2>3, <3>1
    <3> QED
      BY <1>0, <1>1, <2>1, <2>3, <3>2, AbandonEffect DEF Pcs, MayAbandon, TokenTypes
  <2> QED
    BY <1>8, <2>2, <2>3 DEF Block
<1>9. CASE Validate(r)
  <2> DEFINE e == [State |-> "ValidationInProgress", ValidateCounter |-> 1,
                   ClearTimer |-> "running"]
  <2>1. req[r].pc = "validate" /\ Go(r, "idle") /\ UNCHANGED raced /\ Abandon(k) /\ SetEntry(k, e)
    BY <1>9 DEF Validate
  <2>2. 1 \in 0 .. ValidationCounter - 1
    BY TokensAssumption
  <2>3. e \in EntryTypes
    BY <2>2 DEF EntryTypes, States, Timers
  <2> HIDE DEF e
  <2>4. /\ authInfoList' \in [Aks -> EntryTypes \cup {NoEntry}]
        /\ \A j \in Aks \ {k} : authInfoList'[j] = authInfoList[j]
    BY <1>2, <2>1, <2>3
  <2> QED
    BY <1>0, <1>1, <2>1, <2>4, AbandonEffect DEF Pcs, MayAbandon, TokenTypes
<1> QED
  BY <1>3, <1>4, <1>5, <1>6, <1>7, <1>8, <1>9 DEF RequestStep

\* A timer fires, or takes the entry of its key away.
LEMMA TimerEffect ==
  ASSUME TokenTypes, NEW k \in Aks, TimerStep(k)
  PROVE  /\ TokenTypes' /\ UNCHANGED <<startVars, req, raced>>
         /\ \A j \in Aks \ {k} : authInfoList'[j] = authInfoList[j] /\ stray'[j] = stray[j]
         /\ stray'[k] <= stray[k]
         /\ stray[k] = 0 => stray'[k] = 0
         /\ \/ authInfoList'[k] = NoEntry
            \/ /\ authInfoList[k] # NoEntry /\ authInfoList[k].ClearTimer = "running"
               /\ authInfoList'[k].State = authInfoList[k].State
<1>0. /\ authInfoList \in [Aks -> EntryTypes \cup {NoEntry}] /\ stray \in [Aks -> Nat]
      /\ req \in [Requests -> [pc : Pcs, ak : Aks]] /\ raced \in SUBSET Aks
  BY DEF TokenTypes
<1>1. CASE Fire(k)
  <2>1. /\ [authInfoList[k] EXCEPT !.ClearTimer = "fired"] \in EntryTypes
        /\ [authInfoList[k] EXCEPT !.ClearTimer = "fired"].State = authInfoList[k].State
    BY <1>1, EntryFacts DEF Fire, EntryTypes, Timers
  <2>2. /\ authInfoList' \in [Aks -> EntryTypes \cup {NoEntry}]
        /\ authInfoList'[k].State = authInfoList[k].State
        /\ \A j \in Aks \ {k} : authInfoList'[j] = authInfoList[j]
    BY <1>0, <1>1, <2>1 DEF Fire, SetEntry
  <2> QED
    BY <1>0, <1>1, <2>2 DEF Fire, TokenTypes
<1>2. CASE Expire(k)
  BY <1>0, <1>2 DEF Expire, SetEntry, TokenTypes
<1>3. CASE StrayExpire(k)
  <2>1. /\ stray' \in [Aks -> Nat] /\ stray'[k] <= stray[k] /\ stray[k] # 0
        /\ \A j \in Aks \ {k} : stray'[j] = stray[j]
    BY <1>0, <1>3 DEF StrayExpire
  <2>2. authInfoList' = [authInfoList EXCEPT ![k] = NoEntry] /\ UNCHANGED <<startVars, req, raced>>
    BY <1>3 DEF StrayExpire, SetEntry
  <2> QED
    BY <1>0, <2>1, <2>2 DEF TokenTypes
<1> QED
  BY <1>1, <1>2, <1>3 DEF TimerStep

\* A request is accepted while its key is not blocked.
LEMMA CheckEffect ==
  ASSUME TokenTypes, NEW r \in Requests, NEW k \in Aks, Check(r, k)
  PROVE  /\ TokenTypes' /\ UNCHANGED <<startVars, authInfoList, stray>>
         /\ req[r].pc = "idle" /\ req'[r] = [pc |-> "load", ak |-> k]
         /\ \A q \in Requests \ {r} : req'[q] = req[q]
         /\ stray[k] < MaxStray /\ ~isAkInBlockList(k)
<1>0. req \in [Requests -> [pc : Pcs, ak : Aks]] /\ raced \in SUBSET Aks
  BY DEF TokenTypes
<1>1. [pc |-> "load", ak |-> k] \in [pc : Pcs, ak : Aks]
  BY DEF Pcs
<1>2. /\ req[r].pc = "idle" /\ stray[k] < MaxStray /\ ~isAkInBlockList(k)
      /\ req' = [req EXCEPT ![r] = [pc |-> "load", ak |-> k]]
      /\ UNCHANGED <<startVars, authInfoList, stray>>
  BY DEF Check
<1>3. raced' \in SUBSET Aks
  BY <1>0 DEF Check
<1> QED
  BY <1>0, <1>1, <1>2, <1>3 DEF TokenTypes

----------------------------------------------------------------------------
(* Stray timers.                                                           *)

LEMMA Counts ==
  ASSUME NEW k
  PROVE  /\ Cardinality(Requests) \in Nat
         /\ IsFiniteSet(Abandoning(k)) /\ Cardinality(Abandoning(k)) \in Nat
         /\ IsFiniteSet(Abandoning(k)') /\ Cardinality(Abandoning(k)') \in Nat
         /\ Cardinality(Abandoning(k)') <= Cardinality(Requests)
<1>1. Abandoning(k) \subseteq Requests /\ Abandoning(k)' \subseteq Requests
  BY DEF Abandoning
<1>2. IsFiniteSet(Requests)
  BY TokensAssumption
<1>3. IsFiniteSet(Abandoning(k)) /\ IsFiniteSet(Abandoning(k)')
  BY <1>1, <1>2, FS_Subset
<1>4. Cardinality(Abandoning(k)') <= Cardinality(Requests)
  BY <1>1, <1>2, FS_Subset
<1> QED
  BY <1>2, <1>3, <1>4, FS_CardinalityType

\* Fewer requests that may leave a timer behind, and no more stray timers.
LEMMA StrayShrinks ==
  ASSUME TokenTypes, TokenTypes', NEW k \in Aks, StrayInv(k), stray'[k] <= stray[k],
         Abandoning(k)' \subseteq Abandoning(k)
  PROVE  StrayInv(k)'
<1>1. Cardinality(Abandoning(k)') <= Cardinality(Abandoning(k))
  BY Counts, FS_Subset
<1>2. stray[k] \in Nat /\ stray'[k] \in Nat
  BY DEF TokenTypes
<1>3. stray'[k] + Cardinality(Abandoning(k)') <= MaxStray + Cardinality(Requests)
  <2>1. stray[k] + Cardinality(Abandoning(k)) <= MaxStray + Cardinality(Requests)
    BY DEF StrayInv
  <2> QED
    BY <1>1, <1>2, <2>1, Counts, TokensAssumption
<1> QED
  BY <1>3 DEF StrayInv

LEMMA StrayNext ==
  ASSUME TokenTypes, TokenTypes', [Next]_vars, NEW k \in Aks, StrayInv(k)
  PROVE  StrayInv(k)'
<1>0. stray[k] \in Nat /\ stray'[k] \in Nat /\ req \in [Requests -> [pc : Pcs, ak : Aks]]
  BY DEF TokenTypes
<1>1. ASSUME UNCHANGED <<stray, req>> PROVE StrayInv(k)'
  BY <1>1 DEF StrayInv, Abandoning
<1>2. ASSUME NEW r \in Requests, RequestStep(r) PROVE StrayInv(k)'
  <2>1. PICK l \in Aks : l = req[r].ak
    BY <1>0
  <2>2. /\ \A j \in Aks \ {l} : stray'[j] = stray[j]
        /\ req'[r].ak = l /\ \A q \in Requests \ {r} : req'[q] = req[q]
        /\ req[r].pc \in MayAbandon \/ req'[r].pc \notin MayAbandon
        /\ \/ stray'[l] = stray[l]
           \/ /\ stray'[l] = stray[l] + 1
              /\ req[r].pc \in MayAbandon /\ req'[r].pc \notin MayAbandon
    BY <1>2, <2>1, RequestEffect
  <2>3. Abandoning(k)' \subseteq Abandoning(k)
    BY <2>1, <2>2 DEF Abandoning
  <2>4. CASE stray'[k] = stray[k]
    BY <1>0, <2>3, <2>4, StrayShrinks
  <2>5. CASE k = l /\ stray'[k] = stray[k] + 1 /\ req[r].pc \in MayAbandon
             /\ req'[r].pc \notin MayAbandon
    <3>1. r \in Abandoning(k) /\ Abandoning(k)' \subseteq Abandoning(k) \ {r}
      BY <2>1, <2>3, <2>5 DEF Abandoning
    <3>2. /\ IsFiniteSet(Abandoning(k) \ {r})
          /\ Cardinality(Abandoning(k) \ {r}) = Cardinality(Abandoning(k)) - 1
      BY <3>1, Counts, FS_RemoveElement
    <3>3. Cardinality(Abandoning(k)') <= Cardinality(Abandoning(k)) - 1
      BY <3>1, <3>2, FS_Subset
    <3>4. stray[k] + Cardinality(Abandoning(k)) <= MaxStray + Cardinality(Requests)
      BY DEF StrayInv
    <3>5. stray'[k] + Cardinality(Abandoning(k)') <= MaxStray + Cardinality(Requests)
      BY <1>0, <2>5, <3>3, <3>4, Counts, TokensAssumption
    <3> QED
      BY <3>5 DEF StrayInv
  <2> QED
    BY <2>2, <2>4, <2>5
<1>3. ASSUME NEW r \in Requests, NEW l \in Aks, Check(r, l) PROVE StrayInv(k)'
  <2>1. /\ UNCHANGED stray /\ req[r].pc = "idle" /\ req'[r] = [pc |-> "load", ak |-> l]
        /\ stray[l] < MaxStray /\ \A q \in Requests \ {r} : req'[q] = req[q]
    BY <1>3, CheckEffect
  <2>2. CASE k = l
    <3>1. stray'[k] + Cardinality(Abandoning(k)') <= MaxStray + Cardinality(Requests)
      BY <1>0, <2>1, <2>2, Counts, TokensAssumption
    <3> QED
      BY <3>1 DEF StrayInv
  <2>3. CASE k # l
    <3>1. Abandoning(k)' \subseteq Abandoning(k)
      BY <2>1, <2>3 DEF Abandoning
    <3> QED
      BY <1>0, <2>1, <3>1, StrayShrinks
  <2> QED
    BY <2>2, <2>3
<1>4. ASSUME NEW l \in Aks, TimerStep(l) PROVE StrayInv(k)'
  <2>1. /\ UNCHANGED req /\ stray'[l] <= stray[l]
        /\ \A j \in Aks \ {l} : stray'[j] = stray[j]
    BY <1>4, TimerEffect
  <2>2. stray'[k] <= stray[k] /\ Abandoning(k)' \subseteq Abandoning(k)
    BY <1>0, <2>1 DEF Abandoning
  <2> QED
    BY <2>2, StrayShrinks
<1>5. CASE EndAndForget
  <2>1. stray'[k] = 0 /\ Abandoning(k)' \subseteq Abandoning(k)
    BY <1>5 DEF EndAndForget, NoStrays, AllIdle, Idle, Abandoning, MayAbandon
  <2> QED
    BY <1>0, <2>1, StrayShrinks
<1>6. CASE UNCHANGED tokenVars
  BY <1>1, <1>6 DEF tokenVars
<1> QED
  BY <1>2, <1>3, <1>4, <1>5, <1>6 DEF Next, vars

----------------------------------------------------------------------------
(* Requests that do not overlap.                                           *)

\* Nothing happens to the key and to its requests.
LEMMA AloneKept ==
  ASSUME NEW k \in Aks, AloneInv(k), k \in raced => k \in raced',
         authInfoList'[k] = authInfoList[k], stray'[k] = stray[k],
         \A r \in Requests : InFlight(r, k)' <=> InFlight(r, k),
         \A r \in Requests : InFlight(r, k) => req'[r] = req[r]
  PROVE  AloneInv(k)'
<1>1. ASSUME NEW r \in Requests, req[r].pc = "block", req[r].ak = k
      PROVE  req'[r].pc = "block" /\ req'[r].ak = k
  BY <1>1 DEF InFlight
<1> QED
  BY <1>1 DEF AloneInv, FindsEntry

LEMMA RequestAlone ==
  ASSUME TokenTypes, TokenTypes', NEW r \in Requests, RequestStep(r), NEW k \in Aks, AloneInv(k)
  PROVE  AloneInv(k)'
<1>0. req \in [Requests -> [pc : Pcs, ak : Aks]] /\ authInfoList \in [Aks -> EntryTypes \cup {NoEntry}]
  BY DEF TokenTypes
<1>1. PICK l \in Aks : l = req[r].ak
  BY <1>0
<1>2. /\ \A j \in Aks \ {l} : authInfoList'[j] = authInfoList[j] /\ stray'[j] = stray[j]
      /\ raced \subseteq raced' /\ req[r].pc # "idle" /\ req'[r].ak = l
      /\ \A q \in Requests \ {r} : req'[q] = req[q]
  BY <1>1, RequestEffect
<1>3. CASE k # l
  <2>1. \A q \in Requests : /\ InFlight(q, k)' <=> InFlight(q, k)
                            /\ InFlight(q, k) => req'[q] = req[q]
    BY <1>1, <1>2, <1>3 DEF InFlight
  <2> QED
    BY <1>2, <1>3, <2>1, AloneKept
<1>4. CASE k = l /\ k \notin raced'
  <2>1. k \notin raced /\ stray[k] = 0
    BY <1>2, <1>4 DEF AloneInv
  <2>2. req[r].pc # "error"
    BY DEF RequestStep, Load, Clear, Token, Judge, Count, Block, Validate
  <2>3. InFlight(r, k) /\ FindsEntry(r, k) /\ \A q \in Requests : InFlight(q, k) => q = r
    BY <1>1, <1>2, <1>4, <2>1, <2>2 DEF InFlight, AloneInv
  <2>4. \A q \in Requests : InFlight(q, k)' => q = r
    BY <1>2, <2>3 DEF InFlight
  <2>5. SUFFICES /\ stray'[k] = 0 /\ (InFlight(r, k)' => FindsEntry(r, k)')
                 /\ authInfoList'[k] # NoEntry /\ authInfoList'[k].State = "None" =>
                      req'[r].pc = "block"
    BY <1>2, <1>4, <2>4 DEF AloneInv
  <2>6. CASE Load(r)
    <3>1. /\ req[r].pc = "load" /\ UNCHANGED <<authInfoList, stray>>
          /\ \E p \in {"idle", "error", "clear", "judge"} : Go(r, p)
      BY <2>6 DEF Load
    <3> QED
      BY <1>0, <2>1, <2>3, <3>1 DEF Go, FindsEntry, InFlight
  <2>7. CASE Clear(r)
    <3>1. req'[r].pc = "token" /\ req[r].pc = "clear"
      BY <1>0, <2>7 DEF Clear, Go
    <3>2. CASE authInfoList[k] = NoEntry
      BY <1>1, <1>4, <2>1, <2>7, <3>2 DEF Clear, FindsEntry, isAkInValidationList
    <3>3. CASE authInfoList[k] # NoEntry
      <4>1. isAkInValidationList(k)
        BY <2>3, <3>1, <3>3 DEF FindsEntry, isAkInValidationList
      <4>2. authInfoList'[k] = NoEntry
        BY <1>0, <1>1, <1>4, <2>7, <4>1 DEF Clear, SetEntry
      <4>3. authInfoList[k].ClearTimer # "fired"
        BY <1>1, <1>4, <2>7, <4>1 DEF Clear, RacedIf
      <4>4. stray'[k] = stray[k]
        BY <1>1, <1>4, <2>7, <4>1, <4>3 DEF Clear, TokenTypes
      <4> QED
        BY <2>1, <4>2, <4>4 DEF FindsEntry
    <3> QED
      BY <3>2, <3>3
  <2>8. CASE Token(r)
    BY <1>0, <2>1, <2>3, <2>8 DEF Token, Go, InFlight, FindsEntry
  <2>9. CASE Judge(r)
    <3>1. /\ req[r].pc = "judge" /\ UNCHANGED <<authInfoList, stray>>
          /\ req'[r].pc = IF isAkInValidationList(k) THEN "count" ELSE "validate"
      BY <1>0, <1>1, <1>4, <2>9 DEF Judge, Go
    <3> QED
      BY <2>1, <2>3, <3>1 DEF FindsEntry, isAkInValidationList
  <2>10. CASE Count(r)
    <3>1. UNCHANGED stray /\ req[r].pc = "count"
      BY <2>10 DEF Count
    <3>2. CASE Go(r, "idle")
      <4>1. req'[r].pc = "idle"
        BY <1>0, <3>2 DEF Go
      <4>2. ~Go(r, "block")
        BY <1>0, <4>1 DEF Go
      <4>3. CASE authInfoList[k] = NoEntry
        BY <1>1, <1>4, <2>1, <2>10, <3>1, <4>1, <4>3 DEF Count, InFlight
      <4>4. CASE authInfoList[k] # NoEntry
        <5>1. authInfoList'[k] =
                [authInfoList[k] EXCEPT !.ValidateCounter = authInfoList[k].ValidateCounter + 1]
          BY <1>0, <1>1, <1>4, <2>10, <4>2, <4>4 DEF Count, SetEntry
        <5>2. authInfoList'[k].State = authInfoList[k].State
          BY <4>4, <5>1, EntryFacts DEF EntryTypes
        <5>3. authInfoList[k].State = "ValidationInProgress"
          BY <2>3, <3>1, <4>4 DEF FindsEntry
        <5> QED
          BY <2>1, <3>1, <4>1, <5>2, <5>3 DEF InFlight
      <4> QED
        BY <4>3, <4>4
    <3>3. CASE Go(r, "block") /\ ~Go(r, "idle")
      <4>1. /\ authInfoList'[k] = [State |-> "None", ValidateCounter |-> 0,
                                   ClearTimer |-> Stopped(authInfoList[k].ClearTimer)]
            /\ RacedIf(k, authInfoList[k].ClearTimer = "fired") /\ authInfoList[k] # NoEntry
        BY <1>0, <1>1, <1>4, <2>10, <3>3 DEF Count, SetEntry
      <4>2. authInfoList[k].ClearTimer \in {"running", "stopped"}
        BY <1>4, <4>1, EntryFacts DEF RacedIf, Timers
      <4>3. authInfoList'[k].State = "None" /\ authInfoList'[k].ClearTimer = "stopped"
        BY <4>1, <4>2 DEF Stopped
      <4>4. req'[r].pc = "block"
        BY <1>0, <3>3 DEF Go
      <4> QED
        BY <2>1, <3>1, <4>3, <4>4 DEF FindsEntry
    <3> QED
      BY <2>10, <3>2, <3>3 DEF Count
  <2>11. CASE Block(r)
    <3>1. req'[r].pc = "idle" /\ req[r].pc = "block"
      BY <1>0, <2>11 DEF Block, Go
    <3>2. stray'[k] = stray[k]
      BY <1>1, <1>4, <2>3, <2>11, <3>1, AbandonEffect DEF Block, FindsEntry
    <3>3. authInfoList'[k] # NoEntry => authInfoList'[k].State = "UnderBlockList"
      <4>1. CASE authInfoList[k] = NoEntry
        BY <1>1, <1>4, <2>11, <4>1 DEF Block
      <4>2. CASE authInfoList[k] # NoEntry
        <5>1. authInfoList'[k] = [authInfoList[k] EXCEPT !.State = "UnderBlockList",
                                                         !.ClearTimer = "running"]
          BY <1>0, <1>1, <1>4, <2>11, <4>2 DEF Block, SetEntry
        <5> QED
          BY <4>2, <5>1, EntryFacts DEF EntryTypes
      <4> QED
        BY <4>1, <4>2
    <3> QED
      BY <2>1, <3>1, <3>2, <3>3 DEF InFlight
  <2>12. CASE Validate(r)
    <3>1. req'[r].pc = "idle" /\ req[r].pc = "validate"
      BY <1>0, <2>12 DEF Validate, Go
    <3>2. stray'[k] = stray[k]
      BY <1>1, <1>4, <2>3, <2>12, <3>1, AbandonEffect DEF Validate, FindsEntry
    <3>3. authInfoList'[k].State = "ValidationInProgress"
      BY <1>0, <1>1, <1>4, <2>12 DEF Validate, SetEntry
    <3> QED
      BY <2>1, <3>1, <3>2, <3>3 DEF InFlight
  <2> QED
    BY <2>6, <2>7, <2>8, <2>9, <2>10, <2>11, <2>12 DEF RequestStep
<1> QED
  BY <1>3, <1>4 DEF AloneInv

LEMMA CheckAlone ==
  ASSUME TokenTypes, NEW r \in Requests, NEW l \in Aks, Check(r, l), NEW k \in Aks, AloneInv(k)
  PROVE  AloneInv(k)'
<1>1. /\ UNCHANGED <<authInfoList, stray>> /\ req[r].pc = "idle"
      /\ req'[r] = [pc |-> "load", ak |-> l] /\ ~isAkInBlockList(l)
      /\ \A q \in Requests \ {r} : req'[q] = req[q]
  BY CheckEffect
<1>2. raced' = IF \E q \in Requests : InFlight(q, l) THEN raced \cup {l}
               ELSE IF authInfoList[l] = NoEntry /\ stray[l] = 0 THEN raced \ {l} ELSE raced
  BY DEF Check
<1>3. CASE k # l
  <2>1. \A q \in Requests : /\ InFlight(q, k)' <=> InFlight(q, k)
                            /\ InFlight(q, k) => req'[q] = req[q]
    BY <1>1, <1>3 DEF InFlight
  <2> QED
    BY <1>1, <1>2, <1>3, <2>1, AloneKept
<1>4. CASE k = l /\ k \notin raced'
  <2>1. \A q \in Requests : ~InFlight(q, k)
    BY <1>2, <1>4
  <2>2. stray[k] = 0 /\ (authInfoList[k] = NoEntry \/ k \notin raced)
    BY <1>2, <1>4, <2>1 DEF AloneInv
  <2>3. \A q \in Requests : InFlight(q, k)' => q = r
    BY <1>1, <2>1 DEF InFlight
  <2>4. authInfoList[k] # NoEntry => authInfoList[k].State = "ValidationInProgress"
    <3>1. authInfoList[k] # NoEntry => authInfoList[k].State # "None"
      BY <2>1, <2>2 DEF AloneInv, InFlight
    <3> QED
      BY <1>1, <1>4, <3>1, EntryFacts DEF isAkInBlockList, States
  <2> QED
    BY <1>1, <2>2, <2>3, <2>4 DEF AloneInv, FindsEntry
<1> QED
  BY <1>3, <1>4 DEF AloneInv

LEMMA TimerAlone ==
  ASSUME TokenTypes, NEW l \in Aks, TimerStep(l), NEW k \in Aks, AloneInv(k)
  PROVE  AloneInv(k)'
<1>1. /\ UNCHANGED <<req, raced>>
      /\ \A j \in Aks \ {l} : authInfoList'[j] = authInfoList[j] /\ stray'[j] = stray[j]
      /\ stray[l] = 0 => stray'[l] = 0
      /\ \/ authInfoList'[l] = NoEntry
         \/ /\ authInfoList[l] # NoEntry /\ authInfoList[l].ClearTimer = "running"
            /\ authInfoList'[l].State = authInfoList[l].State
  BY TimerEffect
<1>2. \A q \in Requests : InFlight(q, k)' <=> InFlight(q, k)
  BY <1>1 DEF InFlight
<1>3. CASE k # l
  BY <1>1, <1>2, <1>3, AloneKept
<1>4. CASE k = l
  BY <1>1, <1>2, <1>4 DEF AloneInv, FindsEntry
<1> QED
  BY <1>3, <1>4

LEMMA TokenInit == Init => TokenInv
<1> SUFFICES ASSUME Init PROVE TokenInv
  OBVIOUS
<1>1. authInfoList = NoEntries /\ stray = NoStrays /\ req = AllIdle /\ raced = {}
  BY DEF Init
<1>2. TokenTypes
  BY <1>1, StartAssumption DEF TokenTypes, NoEntries, NoStrays, AllIdle, Idle, Pcs
<1>3. ASSUME NEW k \in Aks PROVE StrayInv(k)
  <2>1. stray[k] = 0 /\ Abandoning(k) = {}
    BY <1>1, <1>3 DEF NoStrays, AllIdle, Idle, Abandoning, MayAbandon
  <2>2. Cardinality({}) = 0
    BY FS_EmptySet
  <2>3. 0 + 0 <= MaxStray + Cardinality(Requests)
    BY Counts, TokensAssumption
  <2> QED
    BY <2>1, <2>2, <2>3 DEF StrayInv
<1>4. ASSUME NEW k \in Aks PROVE AloneInv(k)
  BY <1>1, <1>4 DEF AloneInv, InFlight, NoEntries, NoStrays, AllIdle, Idle
<1> QED
  BY <1>2, <1>3, <1>4 DEF TokenInv

LEMMA TokenNext == TokenInv /\ [Next]_vars => TokenInv'
<1> SUFFICES ASSUME TokenInv, [Next]_vars PROVE TokenInv'
  OBVIOUS
<1>0. TokenTypes /\ \A k \in Aks : StrayInv(k) /\ AloneInv(k)
  BY DEF TokenInv
<1>a. ASSUME NEW r \in Requests PROVE req[r].ak \in Aks
  BY <1>0 DEF TokenTypes
<1>b. CASE EndAndForget
  <2>1. authInfoList' = NoEntries /\ stray' = NoStrays /\ req' = AllIdle /\ raced' = {}
    BY <1>b DEF EndAndForget
  <2>2. TokenTypes'
    BY <2>1, StartAssumption DEF TokenTypes, NoEntries, NoStrays, AllIdle, Idle, Pcs
  <2>3. \A k \in Aks : AloneInv(k)'
    BY <2>1 DEF AloneInv, InFlight, NoEntries, NoStrays, AllIdle, Idle
  <2> QED
    BY <1>0, <2>2, <2>3, StrayNext DEF TokenInv
<1>c. CASE UNCHANGED tokenVars
  <2>1. TokenTypes'
    BY <1>0, <1>c DEF TokenTypes, tokenVars
  <2>2. \A k \in Aks : AloneInv(k)'
    BY <1>0, <1>c DEF AloneInv, FindsEntry, InFlight, tokenVars
  <2> QED
    BY <1>0, <2>1, <2>2, StrayNext DEF TokenInv
<1>1. ASSUME NEW r \in Requests, RequestStep(r) PROVE TokenInv'
  <2>1. TokenTypes'
    BY <1>0, <1>1, <1>a, RequestEffect
  <2>2. \A k \in Aks : AloneInv(k)'
    BY <1>0, <1>1, <2>1, RequestAlone
  <2> QED
    BY <1>0, <2>1, <2>2, StrayNext DEF TokenInv
<1>2. ASSUME NEW r \in Requests, NEW l \in Aks, Check(r, l) PROVE TokenInv'
  <2>1. TokenTypes'
    BY <1>0, <1>2, CheckEffect
  <2>2. \A k \in Aks : AloneInv(k)'
    BY <1>0, <1>2, CheckAlone
  <2> QED
    BY <1>0, <2>1, <2>2, StrayNext DEF TokenInv
<1>3. ASSUME NEW l \in Aks, TimerStep(l) PROVE TokenInv'
  <2>1. TokenTypes'
    BY <1>0, <1>3, TimerEffect
  <2>2. \A k \in Aks : AloneInv(k)'
    BY <1>0, <1>3, TimerAlone
  <2> QED
    BY <1>0, <2>1, <2>2, StrayNext DEF TokenInv
<1> QED
  BY <1>b, <1>c, <1>1, <1>2, <1>3 DEF Next, vars

LEMMA TokenInvariant == Spec => []TokenInv
  BY TokenInit, TokenNext, PTL DEF Spec

----------------------------------------------------------------------------
(* The theorems.                                                           *)

\* Files, records, entries, timers and requests keep their types; a counter
\* stays below the number that blocks (processAkForBlockListing), and the
\* stray timers of a key are no more than the bound and the requests.
THEOREM MepauthTypeCorrect == Spec => []TypeOK
<1>1. StartInv /\ TokenInv => TypeOK
  <2> SUFFICES ASSUME StartInv, TokenInv PROVE TypeOK
    OBVIOUS
  <2>1. StartTypeOK /\ TokenTypes
    BY DEF StartInv, TokenInv
  <2>2. ASSUME NEW k \in Aks PROVE stray[k] \in 0 .. MaxStray + Cardinality(Requests)
    <3>1. stray[k] + Cardinality(Abandoning(k)) <= MaxStray + Cardinality(Requests)
      BY DEF TokenInv, StrayInv
    <3>2. stray[k] \in Nat
      BY <2>1 DEF TokenTypes
    <3> QED
      BY <3>1, <3>2, Counts, TokensAssumption
  <2> QED
    BY <2>1, <2>2 DEF TypeOK, TokenTypes, EntryTypes, Pcs
<1> QED
  BY <1>1, TokenInvariant, KeyFilesInvariant, PTL

\* A blocked key whose requests do not overlap stays blocked until the timer
\* of the block has fired or mepauth has ended (startBlockListingAk,
\* stopValidatingAk, clearAkFromBlockListing).
THEOREM BlocksHold == Spec => BlockHolds
<1> DEFINE A == \A k \in Aks : isAkInBlockList(k) /\ ~isAkInBlockList(k)' =>
                  k \in raced \/ authInfoList[k].ClearTimer = "fired" \/ at' = "down"
<1>1. TokenInv /\ [Next]_vars => [A]_vars
  <2> SUFFICES ASSUME TokenInv, Next, NEW k \in Aks, isAkInBlockList(k), ~isAkInBlockList(k)',
                      k \notin raced
               PROVE  authInfoList[k].ClearTimer = "fired" \/ at' = "down"
    OBVIOUS
  <2>0. /\ TokenTypes /\ AloneInv(k) /\ stray[k] = 0
        /\ authInfoList[k] # NoEntry /\ authInfoList[k].State = "UnderBlockList"
    BY DEF TokenInv, AloneInv, isAkInBlockList
  <2>1. authInfoList'[k] # authInfoList[k]
    BY DEF isAkInBlockList
  <2>2. ASSUME NEW r \in Requests, RequestStep(r) PROVE FALSE
    <3>1. PICK l \in Aks : l = req[r].ak
      BY <2>0 DEF TokenTypes
    <3>2. l = k /\ req[r].pc # "idle"
      BY <2>0, <2>1, <2>2, <3>1, RequestEffect
    <3>3. InFlight(r, k)
      BY <2>2, <3>1, <3>2 DEF InFlight, RequestStep, Load, Clear, Token, Judge, Count, Block,
         Validate
    <3>4. FindsEntry(r, k)
      BY <2>0, <3>3 DEF AloneInv
    <3> QED
      BY <2>0, <3>4 DEF FindsEntry
  <2>3. ASSUME NEW r \in Requests, NEW l \in Aks, Check(r, l) PROVE FALSE
    BY <2>0, <2>1, <2>3, CheckEffect
  <2>4. ASSUME NEW l \in Aks, TimerStep(l) PROVE authInfoList[k].ClearTimer = "fired"
    <3>1. l = k
      BY <2>0, <2>1, <2>4, TimerEffect
    <3>2. CASE Expire(k)
      BY <3>2 DEF Expire
    <3>3. CASE Fire(k)
      <4>1. authInfoList'[k] = [authInfoList[k] EXCEPT !.ClearTimer = "fired"]
        BY <2>0, <3>3 DEF Fire, SetEntry, TokenTypes
      <4>2. authInfoList'[k] \in EntryTypes /\ authInfoList'[k].State = "UnderBlockList"
        BY <2>0, <4>1, EntryFacts DEF EntryTypes, Timers
      <4> QED
        BY <4>2, NoEntryIsNone DEF isAkInBlockList
    <3>4. ~StrayExpire(k)
      BY <2>0 DEF StrayExpire
    <3> QED
      BY <2>4, <3>1, <3>2, <3>3, <3>4 DEF TimerStep
  <2>5. CASE EndAndForget
    BY <2>5 DEF EndAndForget, Crash, Stop, Exit
  <2>6. ~UNCHANGED tokenVars
    BY <2>1 DEF tokenVars
  <2> QED
    BY <2>2, <2>3, <2>4, <2>5, <2>6 DEF Next
<1> QED
  BY <1>1, TokenInvariant, PTL DEF Spec, BlockHolds
=============================================================================
