--------------------------- MODULE MepauthTokens ---------------------------
(***************************************************************************)
(* The token requests mepauth serves (token.go) and the list of access     *)
(* keys it keeps in memory (blocklist.go): a key with a wrong signature is *)
(* under validation, with the third one it is blocked, and a timer takes   *)
(* it off the list.  Requests and timers are goroutines that share the map *)
(* of entries without a lock.  Two accesses of the map at the same instant *)
(* end the process, which is a crash of Startup.                           *)
(***************************************************************************)
EXTENDS Startup

CONSTANTS
  Requests,           \* the goroutines of token requests
  ValidationCounter,  \* wrong signatures that block a key
  MaxStray,           \* bound: no new request of a key with so many stray timers
  NoEntry

VARIABLES
  authInfoList,  \* AkSessionInfo by access key
  stray,         \* timer goroutines of a key that its entry does not know of
  req,           \* where a request is, and its key
  raced          \* keys whose requests have overlapped

tokenVars == <<authInfoList, stray, req, raced>>
vars == <<startVars, tokenVars>>

States == {"ValidationInProgress", "None", "UnderBlockList"}
\* A timer is running, has fired (its goroutine will delete the entry) or was
\* stopped (its goroutine waits forever).
Timers == {"running", "fired", "stopped"}
Entries == [State : States, ValidateCounter : Nat, ClearTimer : Timers]

\* A key is blocked with its third wrong signature, and never with the first.
ASSUME TokensAssumption ==
  /\ ValidationCounter \in Nat \ {0, 1} /\ MaxStray \in Nat
  /\ IsFiniteSet(Requests)
  /\ NoEntry \notin Entries

Idle(k) == [pc |-> "idle", ak |-> k]

isAkInBlockList(k) ==
  authInfoList[k] # NoEntry /\ authInfoList[k].State = "UnderBlockList"
isAkInValidationList(k) ==
  authInfoList[k] # NoEntry /\ authInfoList[k].State = "ValidationInProgress"

InFlight(r, k) == req[r].pc \notin {"idle", "error"} /\ req[r].ak = k
Go(r, pc) == req' = [req EXCEPT ![r].pc = pc]
SetEntry(k, e) == authInfoList' = [authInfoList EXCEPT ![k] = e]

\* The goroutine of a timer that the entry no longer has still deletes.
Abandon(k) ==
  stray' = [stray EXCEPT ![k] =
    IF authInfoList[k] # NoEntry /\ authInfoList[k].ClearTimer \in {"running", "fired"}
    THEN @ + 1 ELSE @]

\* Timer.Stop does not call back a timer that has fired.
Stopped(timer) == IF timer = "running" THEN "stopped" ELSE timer
RacedIf(k, b) == raced' = IF b THEN raced \cup {k} ELSE raced
----------------------------------------------------------------------------
(* Requests.                                                               *)

\* Post up to isAkInBlockList; a blocked key is answered with 403.
Check(r, k) ==
  /\ Serving /\ req[r].pc = "idle"
  /\ stray[k] < MaxStray
  /\ ~isAkInBlockList(k)
  /\ req' = [req EXCEPT ![r] = [pc |-> "load", ak |-> k]]
  /\ raced' = IF \E q \in Requests : InFlight(q, k) THEN raced \cup {k}
              ELSE IF authInfoList[k] = NoEntry /\ stray[k] = 0 THEN raced \ {k}
              ELSE raced
  /\ UNCHANGED <<startVars, authInfoList, stray>>

\* getAppInsIdSk reads a record with this key; isSignatureValid needs its
\* secret key, and the signature is right or wrong.
Load(r) ==
  LET k == req[r].ak
      found == {a \in Apps : db[a] # NoRecord /\ db[a].ak = k}
  IN /\ req[r].pc = "load"
     /\ \/ found = {} /\ Go(r, "idle")
        \/ \E a \in found, pc \in {"clear", "judge"} :
             Go(r, IF db[a].key = WorkKey THEN pc ELSE "error")
     /\ UNCHANGED <<startVars, authInfoList, stray, raced>>

\* clearAkFromBlockListing
Clear(r) ==
  LET k == req[r].ak
      e == authInfoList[k]
  IN /\ req[r].pc = "clear"
     /\ IF isAkInValidationList(k)
        THEN /\ SetEntry(k, NoEntry)
             /\ stray' = [stray EXCEPT ![k] = IF e.ClearTimer = "fired" THEN @ + 1 ELSE @]
             /\ RacedIf(k, e.ClearTimer = "fired")
        ELSE UNCHANGED <<authInfoList, stray, raced>>
     /\ Go(r, "token")
     /\ UNCHANGED startVars

\* getTokenInfo: the token is signed with the private key, which the stored
\* password decrypts.
Token(r) ==
  /\ req[r].pc = "token"
  /\ Go(r, IF PwdReadable THEN "idle" ELSE "error")
  /\ UNCHANGED <<startVars, authInfoList, stray, raced>>

\* processAkForBlockListing: is the key under validation?
Judge(r) ==
  /\ req[r].pc = "judge"
  /\ Go(r, IF isAkInValidationList(req[r].ak) THEN "count" ELSE "validate")
  /\ UNCHANGED <<startVars, authInfoList, stray, raced>>

\* Mutant: the counter is not compared.
CountNeverBlocks(r) ==
  LET k == req[r].ak
  IN /\ req[r].pc = "count"
     /\ IF authInfoList[k] # NoEntry /\ authInfoList[k].ValidateCounter < ValidationCounter
        THEN SetEntry(k, [authInfoList[k] EXCEPT !.ValidateCounter = @ + 1])
        ELSE UNCHANGED authInfoList
     /\ Go(r, "idle")
     /\ UNCHANGED <<startVars, stray, raced>>

\* Mutant: the validation timer is not stopped.
CountKeepsTimer(r) ==
  LET k == req[r].ak
      n == authInfoList[k].ValidateCounter + 1
  IN /\ req[r].pc = "count"
     /\ IF authInfoList[k] = NoEntry THEN Go(r, "idle") /\ UNCHANGED authInfoList
        ELSE IF n < ValidationCounter
        THEN SetEntry(k, [authInfoList[k] EXCEPT !.ValidateCounter = n]) /\ Go(r, "idle")
        ELSE /\ SetEntry(k, [authInfoList[k] EXCEPT !.State = "None", !.ValidateCounter = 0])
             /\ Go(r, "block")
     /\ UNCHANGED <<startVars, stray, raced>>

\* ... the counter goes up; the last one stops validation (stopValidatingAk).
Count(r) ==
  LET k == req[r].ak
      n == authInfoList[k].ValidateCounter + 1
      timer == authInfoList[k].ClearTimer
  IN /\ req[r].pc = "count"
     /\ IF authInfoList[k] = NoEntry THEN Go(r, "idle") /\ UNCHANGED <<authInfoList, raced>>
        ELSE IF n < ValidationCounter
        THEN /\ SetEntry(k, [authInfoList[k] EXCEPT !.ValidateCounter = n])
             /\ Go(r, "idle") /\ UNCHANGED raced
        ELSE /\ SetEntry(k, [State |-> "None", ValidateCounter |-> 0,
                             ClearTimer |-> Stopped(timer)])
             /\ RacedIf(k, timer = "fired")
             /\ Go(r, "block")
     /\ UNCHANGED <<startVars, stray>>

\* Mutant: nobody waits for the timer of a blocked key.
BlockForever(r) ==
  LET k == req[r].ak
  IN /\ req[r].pc = "block"
     /\ IF authInfoList[k] = NoEntry THEN UNCHANGED <<authInfoList, stray>>
        ELSE /\ SetEntry(k, [authInfoList[k] EXCEPT !.State = "UnderBlockList",
                                                    !.ClearTimer = "stopped"])
             /\ Abandon(k)
     /\ Go(r, "idle")
     /\ UNCHANGED <<startVars, raced>>

\* startBlockListingAk
Block(r) ==
  LET k == req[r].ak
  IN /\ req[r].pc = "block"
     /\ IF authInfoList[k] = NoEntry THEN UNCHANGED <<authInfoList, stray>>
        ELSE /\ SetEntry(k, [authInfoList[k] EXCEPT !.State = "UnderBlockList",
                                                    !.ClearTimer = "running"])
             /\ Abandon(k)
     /\ Go(r, "idle")
     /\ UNCHANGED <<startVars, raced>>

\* startValidatingAk replaces whatever entry the key has by now.
Validate(r) ==
  LET k == req[r].ak
  IN /\ req[r].pc = "validate"
     /\ SetEntry(k, [State |-> "ValidationInProgress", ValidateCounter |-> 1,
                     ClearTimer |-> "running"])
     /\ Abandon(k)
     /\ Go(r, "idle")
     /\ UNCHANGED <<startVars, raced>>

RequestStep(r) == \/ Load(r) \/ Clear(r) \/ Token(r)
                  \/ Judge(r) \/ Count(r) \/ Block(r) \/ Validate(r)
----------------------------------------------------------------------------
(* Timers.                                                                 *)

Fire(k) ==
  /\ authInfoList[k] # NoEntry /\ authInfoList[k].ClearTimer = "running"
  /\ SetEntry(k, [authInfoList[k] EXCEPT !.ClearTimer = "fired"])
  /\ UNCHANGED <<startVars, stray, req, raced>>

\* The goroutine of the timer deletes the entry of its key ...
Expire(k) ==
  /\ authInfoList[k] # NoEntry /\ authInfoList[k].ClearTimer = "fired"
  /\ SetEntry(k, NoEntry)
  /\ UNCHANGED <<startVars, stray, req, raced>>

\* ... and so does one whose timer the entry no longer has; the timer of the
\* entry it deletes is left behind in turn.
StrayExpire(k) ==
  /\ stray[k] > 0
  /\ stray' = [stray EXCEPT ![k] =
       IF authInfoList[k] # NoEntry /\ authInfoList[k].ClearTimer # "stopped" THEN @ ELSE @ - 1]
  /\ SetEntry(k, NoEntry)
  /\ UNCHANGED <<startVars, req, raced>>

TimerStep(k) == Fire(k) \/ Expire(k) \/ StrayExpire(k)
----------------------------------------------------------------------------
\* main has called InitAuthInfoList and serves; the list is in memory only.
NoEntries == [k \in Aks |-> NoEntry]
NoStrays == [k \in Aks |-> 0]
AllIdle == [r \in Requests |-> Idle(InitAk)]

Init ==
  /\ StartInit
  /\ authInfoList = NoEntries /\ stray = NoStrays /\ req = AllIdle /\ raced = {}

EndAndForget ==
  /\ Crash \/ Stop
  /\ authInfoList' = NoEntries /\ stray' = NoStrays /\ req' = AllIdle /\ raced' = {}

Next ==
  \/ (StartStep \/ Conf) /\ UNCHANGED tokenVars
  \/ EndAndForget
  \/ \E r \in Requests : RequestStep(r) \/ \E k \in Aks : Check(r, k)
  \/ \E k \in Aks : TimerStep(k)

\* main is run again, goroutines run, timers fire.  Nobody has to ask for a
\* token.
Spec ==
  /\ Init /\ [][Next]_vars
  /\ WF_vars(StartStep /\ UNCHANGED tokenVars)
  /\ \A r \in Requests : WF_vars(RequestStep(r))
  /\ \A k \in Aks : WF_vars(Fire(k)) /\ WF_vars(Expire(k)) /\ WF_vars(StrayExpire(k))
----------------------------------------------------------------------------
(* Properties.                                                             *)

\* Files, records, entries, timers and requests keep their types.
TypeOK ==
  /\ StartTypeOK
  /\ \A k \in Aks :
       /\ authInfoList[k] \in
            [State : States, ValidateCounter : 0 .. ValidationCounter - 1,
             ClearTimer : Timers] \cup {NoEntry}
       /\ stray[k] \in 0 .. MaxStray + Cardinality(Requests)
  /\ \A r \in Requests : req[r] \in
       [pc : {"idle", "load", "clear", "token", "judge", "count", "block", "validate", "error"},
        ak : Aks]
  /\ raced \subseteq Aks

\* No request for a recorded key is answered with an internal error: while
\* mepauth serves, the secret key and the password of the private key can be
\* decrypted (getAppInsIdSk, generateJwtToken), whatever happened at this
\* start or at earlier ones.
NoInternalError == \A r \in Requests : req[r].pc # "error"

\* As long as the requests of a key do not overlap, each other or a timer
\* that has just fired, a blocked key stays blocked until the timer of the
\* block has fired or mepauth has ended: neither a wrong nor a right signature
\* and no timer of an earlier validation takes it off the list.
BlockHolds ==
  [][\A k \in Aks : isAkInBlockList(k) /\ ~isAkInBlockList(k)' =>
       k \in raced \/ authInfoList[k].ClearTimer = "fired" \/ at' = "down"]_vars

\* A blocked key does not stay blocked, even if requests have overlapped
\* (every entry that startBlockListingAk makes has a timer of its own).
BlockEnds == \A k \in Aks : isAkInBlockList(k) ~> ~isAkInBlockList(k)
=============================================================================
