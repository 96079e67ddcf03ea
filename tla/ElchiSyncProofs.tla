-------------------------- MODULE ElchiSyncProofs --------------------------
(***************************************************************************)
(* What holds of ElchiSync for every zone, every controller and every      *)
(* behaviour of the network.                                               *)
(***************************************************************************)
EXTENDS ElchiSync, DnsDataProofs

-----------------------------------------------------------------------------
(* The client                                                              *)

\* What the calls return is an error, "unchanged" or a snapshot with a hash; a
\* fetch never says "unchanged".
LEMMA FetchResults ==
    ASSUME NEW resp \in Responses
    PROVE  FetchSnapshot(resp) \in Results \ {Unchanged}
BY VersionsAssumption DEF FetchSnapshot, Responses, Results, Complete, Failed, Unchanged, Snapshot

LEMMA CheckResults ==
    ASSUME NEW resp \in Responses
    PROVE  CheckChanges(resp) \in Results
<1>1. CASE resp.status = 304
  BY <1>1 DEF CheckChanges, Decoded, Results
<1>2. CASE resp.status # 304 /\ Decoded(resp) /\ resp.unchanged
  BY <1>2 DEF CheckChanges, Results
<1>3. CASE Decoded(resp) /\ ~resp.unchanged /\ Complete(resp)
  <2>1. resp.status # 304 /\ resp.hash \in Versions
    BY <1>3 DEF Decoded, Complete, Responses
  <2>2. CheckChanges(resp) = Snapshot(resp.hash)
    BY <1>3, <2>1 DEF CheckChanges
  <2>3. QED
    BY <2>1, <2>2 DEF Results
<1>4. QED
  BY <1>1, <1>2, <1>3 DEF CheckChanges, Results

\* Nothing the controller or the network answers is outside Responses.
LEMMA RespondType ==
    ASSUME NEW ctl \in [secret : {NoSecret, Secret}, zone : {NoZone, Zone},
                               version : Versions], NEW request
    PROVE  /\ Full(ctl) \in Responses
           /\ Respond(ctl, request) \in Responses
           /\ Respond(ctl, request).hash \in {ctl.version, NoHash}
<1>1. /\ Full(ctl) \in Responses /\ NotModified \in Responses
      /\ \A status \in {400, 401, 404} : ErrorPage(status) \in Responses
  BY DEF Full, NotModified, ErrorPage, Response, Responses
<1>2. /\ Full(ctl).hash = ctl.version /\ NotModified.hash = NoHash
      /\ \A status \in {400, 401, 404} : ErrorPage(status).hash = NoHash
  BY DEF Full, NotModified, ErrorPage, Response
<1>3. QED
  BY <1>1, <1>2 DEF Respond

\* What the controller of this system answers.
LEMMA AnswersType ==
    ASSUME current \in Versions
    PROVE  /\ Respond(Controller, Request) \in Responses
           /\ Respond(Controller, Request).hash \in {current, NoHash}
           /\ FaultyAnswers \subseteq Responses
           /\ \A resp \in FaultyAnswers : resp.hash \in {current, NoHash}
<1> DEFINE AnyController == [secret : {NoSecret, Secret}, zone : {NoZone, Zone},
                             version : Versions]
<1>1. /\ Controller \in AnyController
      /\ [Controller EXCEPT !.secret = NoSecret] \in AnyController
      /\ [Controller EXCEPT !.zone = NoZone] \in AnyController
      /\ Controller.version = current
      /\ [Controller EXCEPT !.secret = NoSecret].version = current
      /\ [Controller EXCEPT !.zone = NoZone].version = current
  BY DEF Controller
<1>2. \A c \in AnyController :
          /\ Full(c) \in Responses
          /\ Respond(c, Request) \in Responses
          /\ Respond(c, Request).hash \in {c.version, NoHash}
  BY RespondType
<1>3. Full(Controller).hash = current
  BY <1>1 DEF Full, Response
<1> HIDE DEF AnyController
<1>4. \A resp \in Responses :
          /\ \A b \in {"broken", "garbled"} :
                [resp EXCEPT !.body = b] \in Responses
                /\ [resp EXCEPT !.body = b].hash = resp.hash
          /\ [resp EXCEPT !.zone = NoZone] \in Responses
          /\ [resp EXCEPT !.zone = NoZone].hash = resp.hash
          /\ [resp EXCEPT !.hash = NoHash] \in Responses
          /\ [resp EXCEPT !.hash = NoHash].hash = NoHash
  BY DEF Responses
<1>5. ErrorPage(500) \in Responses /\ ErrorPage(500).hash = NoHash
  BY DEF ErrorPage, Response, Responses
<1>6. ASSUME NEW resp \in FaultyAnswers
      PROVE  resp \in Responses /\ resp.hash \in {current, NoHash}
  <2> DEFINE full == Full(Controller)
  <2>1. full \in Responses /\ full.hash = current
    BY <1>1, <1>2, <1>3
  <2>2. \/ resp \in {[full EXCEPT !.body = "broken"], [full EXCEPT !.body = "garbled"],
                    [full EXCEPT !.zone = NoZone], [full EXCEPT !.hash = NoHash]}
        \/ resp = ErrorPage(500)
        \/ resp \in {Respond([Controller EXCEPT !.secret = NoSecret], Request),
                     Respond([Controller EXCEPT !.zone = NoZone], Request)}
    BY DEF FaultyAnswers
  <2> HIDE DEF full
  <2>3. CASE resp \in {[full EXCEPT !.body = "broken"], [full EXCEPT !.body = "garbled"],
                       [full EXCEPT !.zone = NoZone], [full EXCEPT !.hash = NoHash]}
    BY <1>4, <2>1, <2>3
  <2>4. CASE resp = ErrorPage(500)
    BY <1>5, <2>4
  <2>5. CASE resp \in {Respond([Controller EXCEPT !.secret = NoSecret], Request),
                       Respond([Controller EXCEPT !.zone = NoZone], Request)}
    BY <1>1, <1>2, <2>5
  <2>6. QED
    BY <2>2, <2>3, <2>4, <2>5
<1>7. QED
  BY <1>1, <1>2, <1>6

\* The 200 that says "unchanged".
LEMMA UnchangedAnswer ==
    LET resp == Response(200, "payload", NoZone, NoHash, TRUE)
    IN  resp \in Responses /\ resp.hash = NoHash
BY DEF Response, Responses

LEMMA RemoveAtType ==
    ASSUME NEW S, NEW s \in Seq(S), NEW i \in DOMAIN s
    PROVE  RemoveAt(s, i) \in Seq(S)
<1>1. Len(s) \in Nat /\ i \in 1 .. Len(s)
  BY LenProperties
<1>2. SubSeq(s, 1, i - 1) \in Seq(S)
  BY <1>1, SubSeqProperties
<1>3. SubSeq(s, i + 1, Len(s)) \in Seq(S)
  BY <1>1, SubSeqProperties
<1>4. QED
  BY <1>2, <1>3, ConcatProperties DEF RemoveAt

LEMMA NoticesType ==
    ASSUME NEW n \in Notices
    PROVE  n.records \in Seq(Records) /\ n.deletes \in Seq(Deletes)
BY SyncAssumption DEF Notices

-----------------------------------------------------------------------------
(* The inductive invariant.  A check is under way only if the cache had a  *)
(* hash, and "unchanged" is only ever the result of a check.               *)

IInv == TypeOK /\ SinceIsCacheHash /\ SuccessMeansLoaded

LEMMA ListenOutcomesType == \A b \in ListenOutcomes : b \in BOOLEAN
BY Zenon DEF ListenOutcomes

LEMMA InitIInv == Init => IInv
<1> SUFFICES ASSUME Init PROVE IInv
  OBVIOUS
<1>0. listening \in BOOLEAN /\ restarts \in 0 .. MaxRestarts
  BY ListenOutcomesType, SyncAssumption DEF Init
<1>1. notices \in Seq(Notices)
  BY EmptySeq DEF Init
<1>2. deletes \in [Handlers -> Seq(Deletes)]
  BY EmptySeq DEF Init
<1>3. TypeOK
  BY <1>0, <1>1, <1>2, EmptyStoreIsStore, SyncAssumption DEF Init, TypeOK
<1>4. QED
  BY <1>3 DEF Init, IInv, SinceIsCacheHash, SuccessMeansLoaded

\* Whatever a fetch or a check brings.
LEMMA SettleKeepsIInv ==
    ASSUME IInv, NEW result \in Results, Settle(result),
           result = Unchanged => phase = "checking"
    PROVE  IInv'
<1> USE DEF IInv
<1>1. /\ since' = NoHash /\ reply' = NoReply /\ phase' = "idle"
      /\ UNCHANGED <<current, changes, faults, notices, webhook, instance>>
  BY DEF Settle
<1>2. CASE result \in {Failed, Unchanged}
  <2>1. /\ UNCHANGED <<store, versionHash, recent>>
        /\ syncStatus' = IF result = Failed THEN "failed" ELSE "success"
    <3>1. Failed.kind = "failed" /\ Unchanged.kind = "unchanged"
      BY DEF Failed, Unchanged
    <3>2. CASE result = Failed
      BY <3>1, <3>2 DEF Settle
    <3>3. CASE result = Unchanged
      BY <3>1, <3>3 DEF Settle
    <3>4. QED
      BY <1>2, <3>2, <3>3
  <2>2. TypeOK'
    BY <1>1, <2>1 DEF TypeOK, webhook, instance
  <2>3. SinceIsCacheHash' /\ SuccessMeansLoaded'
    BY <1>1, <1>2, <2>1 DEF SinceIsCacheHash, SuccessMeansLoaded
  <2>4. QED
    BY <2>2, <2>3
<1>3. ASSUME NEW v \in Versions, result = Snapshot(v)
      PROVE  IInv'
  <2>1. /\ store' = LoadSnapshot(Content[v])
        /\ versionHash' = v /\ syncStatus' = "success" /\ recent' = {current}
    BY <1>3 DEF Settle, Snapshot, RecordsOf
  <2>2. IsStore(store')
    BY <2>1, SyncAssumption, LoadSnapshotIsStore
  <2>3. TypeOK'
    BY <1>1, <2>1, <2>2 DEF TypeOK, webhook, instance
  <2>4. SinceIsCacheHash' /\ SuccessMeansLoaded'
    BY <1>1, <2>1, VersionsAssumption DEF SinceIsCacheHash, SuccessMeansLoaded
  <2>5. QED
    BY <2>3, <2>4
<1>4. QED
  BY <1>2, <1>3 DEF Results

LEMMA NextIInv == IInv /\ [Next]_vars => IInv'
<1> SUFFICES ASSUME IInv, [Next]_vars PROVE IInv'
  OBVIOUS
<1> USE DEF IInv
<1> USE DEF goroutine, webhook, controller, instance
<1>1. ASSUME NEW v \in Versions, Publish(v)
      PROVE  IInv'
  <2> USE <1>1 DEF Publish
  <2>1. Notice[current][v] \in Notices
    BY DEF Notices, TypeOK
  <2>2. notices' \in Seq(Notices)
    BY <2>1, AppendProperties DEF TypeOK
  <2>3. changes' \in 0 .. MaxChanges
    BY SyncAssumption DEF TypeOK
  <2>4. TypeOK'
    BY <2>2, <2>3 DEF TypeOK
  <2>5. QED
    BY <2>4 DEF SinceIsCacheHash, SuccessMeansLoaded
<1>2. ASSUME NEW resp \in Responses, Answer(resp), faults' \in 0 .. MaxFaults
      PROVE  IInv'
  BY <1>2 DEF Answer, TypeOK, SinceIsCacheHash, SuccessMeansLoaded
<1>3. ASSUME Serve
      PROVE  IInv'
  <2>1. PICK resp \in Responses : Answer(resp)
    BY <1>3, AnswersType, UnchangedAnswer DEF Serve, TypeOK
  <2>2. QED
    BY <1>2, <1>3, <2>1 DEF Serve, TypeOK
<1>4. ASSUME Misbehave
      PROVE  IInv'
  <2>1. PICK resp \in FaultyAnswers : Answer(resp)
    BY <1>4 DEF Misbehave
  <2>2. resp \in Responses
    BY AnswersType DEF TypeOK
  <2>3. faults' \in 0 .. MaxFaults
    BY <1>4, SyncAssumption DEF Misbehave, TypeOK
  <2>4. QED
    BY <1>2, <2>1, <2>2, <2>3
<1>5. ASSUME NEW i \in DOMAIN notices, Lose(i) \/ Reject(i)
      PROVE  IInv'
  <2>1. notices' \in Seq(Notices)
    BY <1>5, RemoveAtType DEF Lose, Reject, TypeOK
  <2>2. QED
    BY <1>5, <2>1 DEF Lose, Reject, TypeOK, SinceIsCacheHash, SuccessMeansLoaded
<1>6. ASSUME PerformSync
      PROVE  IInv'
  BY <1>6, VersionsAssumption DEF PerformSync, TypeOK, SinceIsCacheHash, SuccessMeansLoaded
<1>7. ASSUME Done
      PROVE  IInv'
  <2>1. reply \in Responses
    BY <1>7 DEF Done, InitialFetchDone, FetchDone, CheckDone, TypeOK
  <2>2. CASE InitialFetchDone \/ FetchDone
    BY <2>1, <2>2, FetchResults, SettleKeepsIInv DEF InitialFetchDone, FetchDone
  <2>3. CASE CheckDone
    BY <2>1, <2>3, CheckResults, SettleKeepsIInv DEF CheckDone
  <2>4. QED
    BY <1>7, <2>2, <2>3 DEF Done
<1>8. ASSUME NEW h \in Handlers, NEW i \in DOMAIN notices, NotifyUpdate(h, i)
      PROVE  IInv'
  <2> USE <1>8 DEF NotifyUpdate
  <2>1. notices[i] \in Notices
    BY ElementOfSeq, LenProperties DEF TypeOK
  <2>2. notices' \in Seq(Notices)
    BY RemoveAtType DEF TypeOK
  <2>3. IsStore(store')
    BY <2>1, NoticesType, ApplyUpdateKeepsStore DEF TypeOK
  <2>4. handler' \in [Handlers -> {"idle", "deletes"}]
        /\ deletes' \in [Handlers -> Seq(Deletes)]
    BY <2>1, NoticesType DEF TypeOK
  <2>5. TypeOK'
    BY <2>2, <2>3, <2>4 DEF TypeOK
  <2>6. QED
    BY <2>5 DEF SinceIsCacheHash, SuccessMeansLoaded
<1>9. ASSUME NEW h \in Handlers, NotifyDelete(h)
      PROVE  IInv'
  <2> USE <1>9 DEF NotifyDelete
  <2>1. IsStore(store')
    BY ApplyDeleteKeepsStore DEF TypeOK
  <2>2. deletes' \in [Handlers -> Seq(Deletes)]
    BY EmptySeq DEF TypeOK
  <2>3. TypeOK'
    BY <2>1, <2>2 DEF TypeOK
  <2>4. QED
    BY <2>3 DEF SinceIsCacheHash, SuccessMeansLoaded
<1>10. ASSUME Restart
       PROVE  IInv'
  <2> USE <1>10 DEF Restart
  <2>1. IsStore(store') /\ deletes' \in [Handlers -> Seq(Deletes)]
    BY EmptyStoreIsStore, EmptySeq
  <2>2. restarts' \in 0 .. MaxRestarts
    BY SyncAssumption DEF TypeOK
  <2>3. listening' \in BOOLEAN
    BY ListenOutcomesType
  <2>4. TypeOK'
    BY <2>1, <2>2, <2>3 DEF TypeOK
  <2>5. QED
    BY <2>4 DEF SinceIsCacheHash, SuccessMeansLoaded
<1>11. CASE UNCHANGED vars
  BY <1>11 DEF vars, TypeOK, SinceIsCacheHash, SuccessMeansLoaded
<1>12. QED
  BY <1>1, <1>3, <1>4, <1>5, <1>6, <1>7, <1>8, <1>9, <1>10, <1>11 DEF Next, Deliver, Finish

LEMMA Invariance == Spec => []IInv
BY InitIInv, NextIInv, PTL DEF Spec

\* Whatever the controller answers and the network does, the state of the sync
\* keeps its shape, and the cache remains a store.
THEOREM SyncTypeCorrect == Spec => []TypeOK
<1>1. IInv => TypeOK
  BY DEF IInv
<1>2. QED
  BY <1>1, Invariance, PTL

\* performSync may use an answer "unchanged" seconds after it read the hash: no
\* other goroutine changes the hash in between, however many handlers run.
THEOREM SinceIsCacheHashInvariant == Spec => []SinceIsCacheHash
<1>1. IInv => SinceIsCacheHash
  BY DEF IInv
<1>2. QED
  BY <1>1, Invariance, PTL

\* No response, however broken, makes a sync successful that has loaded nothing.
THEOREM SuccessMeansLoadedInvariant == Spec => []SuccessMeansLoaded
<1>1. IInv => SuccessMeansLoaded
  BY DEF IInv
<1>2. QED
  BY <1>1, Invariance, PTL
-----------------------------------------------------------------------------
(* The operators of the instance are those of the module.                  *)

LEMMA MirrorOperators ==
    /\ Mirror!EmptyStore = EmptyStore
    /\ \A recs : Mirror!LoadSnapshot(recs) = LoadSnapshot(recs)
    /\ \A s, recs : Mirror!ApplyUpdate(s, recs) = ApplyUpdate(s, recs)
    /\ \A s, dels : Mirror!ApplyDelete(s, dels) = ApplyDelete(s, dels)
<1>1. \A r : Mirror!BuildDNSRecords(r) = BuildDNSRecords(r)
    BY DEF Mirror!BuildDNSRecords, BuildDNSRecords, Mirror!RR, RR,
     Mirror!EffectiveTTL, EffectiveTTL, Mirror!ToUpper, ToUpper,
     Mirror!ParsedIn, ParsedIn, Mirror!NoName, NoName
<1>2. \A r : Mirror!Key(r) = Key(r)
    BY DEF Mirror!Key, Key, Mirror!BuiltType, BuiltType, Mirror!ToUpper,
     ToUpper
<1>3. \A recs : Mirror!LoadableAt(recs) = LoadableAt(recs)
    BY <1>1 DEF Mirror!LoadableAt, LoadableAt, Mirror!Loadable, Loadable
<1>4. \A recs, k : Mirror!WritersOf(recs, k) = WritersOf(recs, k)
    BY <1>2, <1>3 DEF Mirror!WritersOf, WritersOf
<1>5. \A recs : Mirror!WrittenKeys(recs) = WrittenKeys(recs)
    BY <1>2, <1>3 DEF Mirror!WrittenKeys, WrittenKeys
<1>6. \A s, k : Mirror!LookupKey(s, k) = LookupKey(s, k)
    BY DEF Mirror!LookupKey, LookupKey
<1>7. Mirror!EmptyStore = EmptyStore
    BY DEF Mirror!EmptyStore, EmptyStore
<1>8. \A recs : Mirror!LoadSnapshot(recs) = LoadSnapshot(recs)
    BY <1>1, <1>4, <1>5, <1>6, <1>7 DEF Mirror!LoadSnapshot, LoadSnapshot,
     Mirror!AppendAll, AppendAll
<1>9. \A s, recs : Mirror!ApplyUpdate(s, recs) = ApplyUpdate(s, recs)
  <2>1. ASSUME NEW recs, NEW k
        PROVE  Mirror!LastWriter(recs, k) = LastWriter(recs, k)
    <3>1. Mirror!WritersOf(recs, k) = WritersOf(recs, k)
      BY <1>4
    <3>2. QED
      BY <3>1, Zenon DEF Mirror!LastWriter, LastWriter
  <2>2. QED
    BY <1>1, <1>5, <2>1 DEF Mirror!ApplyUpdate, ApplyUpdate
<1>10. \A s, dels : Mirror!ApplyDelete(s, dels) = ApplyDelete(s, dels)
    BY DEF Mirror!ApplyDelete, ApplyDelete, Mirror!DeletedKeys, DeletedKeys,
     Mirror!DeletableAt, DeletableAt, Mirror!ToUpper, ToUpper
<1>11. QED
  BY <1>7, <1>8, <1>9, <1>10

-----------------------------------------------------------------------------
(* ElchiSync implements ZoneMirror.  A snapshot under way is of a version  *)
(* the controller held since the cache took its last one, as the sync has  *)
(* one request at a time; the deletes a handler still has to apply are     *)
(* those of a published notification.                                      *)

Carries(resp) == Decoded(resp) /\ Complete(resp)

MirrorInv ==
    /\ current \in recent
    /\ reply # NoReply /\ Carries(reply) => reply.hash \in recent
    /\ \A h \in Handlers :
          handler[h] = "deletes" => \E n \in Notices : deletes[h] = n.deletes

LEMMA FetchBrings ==
    ASSUME NEW resp, NEW v, FetchSnapshot(resp) = Snapshot(v)
    PROVE  Carries(resp) /\ resp.hash = v
BY DEF FetchSnapshot, Snapshot, Failed, Carries

LEMMA CheckBrings ==
    ASSUME NEW resp, NEW v, CheckChanges(resp) = Snapshot(v)
    PROVE  Carries(resp) /\ resp.hash = v
<1>1. Unchanged # Snapshot(v) /\ Failed # Snapshot(v)
  BY DEF Unchanged, Failed, Snapshot
<1>2. CheckChanges(resp) # Unchanged /\ CheckChanges(resp) # Failed
  BY <1>1
<1>3. resp.status # 304 /\ Decoded(resp) /\ ~resp.unchanged /\ Complete(resp)
  BY <1>2 DEF CheckChanges, Decoded
<1>4. CheckChanges(resp) = Snapshot(resp.hash)
  BY <1>3 DEF CheckChanges
<1>5. QED
  BY <1>3, <1>4 DEF Snapshot, Carries

\* What Done does: it loads a version still recent, or it leaves the cache alone.
LEMMA DoneRefreshes ==
    ASSUME IInv, MirrorInv, Done
    PROVE  /\ \/ UNCHANGED <<store, versionHash, recent>>
              \/ /\ versionHash' \in recent
                 /\ store' = LoadSnapshot(Content[versionHash'])
                 /\ recent' = {current}
           /\ reply' = NoReply
           /\ UNCHANGED <<current, notices, handler, deletes, restarts>>
<1>1. PICK result \in Results :
          /\ Settle(result)
          /\ \A v : result = Snapshot(v) => Carries(reply) /\ reply.hash = v
  <2>1. reply \in Responses /\ reply # NoReply
    BY DEF IInv, TypeOK, Done, InitialFetchDone, FetchDone, CheckDone
  <2>2. CASE InitialFetchDone \/ FetchDone
    BY <2>1, <2>2, FetchResults, FetchBrings DEF InitialFetchDone, FetchDone
  <2>3. CASE CheckDone
    BY <2>1, <2>3, CheckResults, CheckBrings DEF CheckDone
  <2>4. QED
    BY <2>2, <2>3 DEF Done
<1>2. reply # NoReply
  BY DEF Done, InitialFetchDone, FetchDone, CheckDone
<1>3. reply' = NoReply /\ UNCHANGED <<current, notices, handler, deletes, restarts>>
  BY <1>1 DEF Settle, webhook, instance
<1>4. CASE result = Failed
  BY <1>1, <1>3, <1>4 DEF Settle, Failed
<1>5. CASE result = Unchanged
  BY <1>1, <1>3, <1>5 DEF Settle, Unchanged
<1>6. ASSUME NEW v \in Versions, result = Snapshot(v)
      PROVE  /\ versionHash' \in recent
             /\ store' = LoadSnapshot(Content[versionHash'])
             /\ recent' = {current}
  <2>1. v \in recent
    BY <1>1, <1>2, <1>6 DEF MirrorInv
  <2>2. QED
    BY <1>1, <1>6, <2>1 DEF Settle, Snapshot, RecordsOf
<1>7. QED
  BY <1>3, <1>4, <1>5, <1>6 DEF Results

LEMMA InitMirrorInv == Init => MirrorInv
BY DEF Init, MirrorInv

LEMMA NextMirrorInv == IInv /\ MirrorInv /\ [Next]_vars => MirrorInv'
<1> SUFFICES ASSUME IInv, MirrorInv, [Next]_vars PROVE MirrorInv'
  OBVIOUS
<1> USE DEF goroutine, webhook, controller, instance
<1>1. ASSUME NEW v \in Versions, Publish(v)
      PROVE  MirrorInv'
  BY <1>1 DEF Publish, MirrorInv
<1>2. ASSUME NEW resp, Answer(resp), resp.hash \in {current, NoHash}
      PROVE  MirrorInv'
  BY <1>2 DEF Answer, MirrorInv, Carries, Complete
<1>3. ASSUME Serve
      PROVE  MirrorInv'
  BY <1>2, <1>3, AnswersType, UnchangedAnswer DEF Serve, IInv, TypeOK
<1>4. ASSUME Misbehave
      PROVE  MirrorInv'
  <2>1. PICK resp \in FaultyAnswers : Answer(resp)
    BY <1>4 DEF Misbehave
  <2>2. resp.hash \in {current, NoHash}
    BY AnswersType DEF IInv, TypeOK
  <2>3. QED
    BY <1>2, <2>1, <2>2
<1>5. ASSUME NEW i \in DOMAIN notices, Lose(i) \/ Reject(i)
      PROVE  MirrorInv'
  BY <1>5 DEF Lose, Reject, MirrorInv
<1>6. ASSUME PerformSync
      PROVE  MirrorInv'
  BY <1>6 DEF PerformSync, MirrorInv
<1>7. ASSUME Done
      PROVE  MirrorInv'
  BY <1>7, DoneRefreshes DEF MirrorInv
<1>8. ASSUME NEW h \in Handlers, NEW i \in DOMAIN notices, NotifyUpdate(h, i)
      PROVE  MirrorInv'
  <2>1. notices[i] \in Notices
    BY ElementOfSeq, LenProperties DEF IInv, TypeOK
  <2>2. \A g \in Handlers :
            handler'[g] = "deletes" => \E n \in Notices : deletes'[g] = n.deletes
    BY <1>8, <2>1 DEF NotifyUpdate, MirrorInv, IInv, TypeOK
  <2>3. QED
    BY <1>8, <2>2 DEF NotifyUpdate, MirrorInv
<1>9. ASSUME NEW h \in Handlers, NotifyDelete(h)
      PROVE  MirrorInv'
  BY <1>9 DEF NotifyDelete, MirrorInv, IInv, TypeOK
<1>10. ASSUME Restart
       PROVE  MirrorInv'
  BY <1>10 DEF Restart, MirrorInv
<1>11. CASE UNCHANGED vars
  BY <1>11 DEF vars, MirrorInv
<1>12. QED
  BY <1>1, <1>3, <1>4, <1>5, <1>6, <1>7, <1>8, <1>9, <1>10, <1>11 DEF Next, Deliver, Finish

LEMMA InitMirrors == Init => Mirror!Init
BY MirrorOperators DEF Init, Mirror!Init, NoHash, Mirror!NoHash

LEMMA NextMirrors ==
    IInv /\ MirrorInv /\ [Next]_vars => [Mirror!Next]_(Mirror!mvars)
<1> SUFFICES ASSUME IInv, MirrorInv, [Next]_vars
             PROVE  Mirror!Next \/ UNCHANGED <<current, recent, store, versionHash, restarts>>
  BY DEF Mirror!mvars
<1> USE DEF goroutine, webhook, controller, instance
<1>1. ASSUME NEW v \in Versions, Publish(v)
      PROVE  Mirror!Next
  BY <1>1 DEF Publish, Mirror!Next, Mirror!Publish
<1>2. ASSUME \/ Serve \/ Misbehave \/ PerformSync
             \/ \E i \in DOMAIN notices : Lose(i) \/ Reject(i)
      PROVE  UNCHANGED <<current, recent, store, versionHash, restarts>>
  BY <1>2 DEF Serve, Misbehave, Answer, PerformSync, Lose, Reject
<1>3. ASSUME Done
      PROVE  Mirror!Next \/ UNCHANGED <<current, recent, store, versionHash, restarts>>
  BY <1>3, DoneRefreshes, MirrorOperators DEF Mirror!Next, Mirror!Refresh
<1>4. ASSUME NEW h \in Handlers, NEW n \in Notices,
             store' \in {ApplyUpdate(store, n.records), ApplyDelete(store, n.deletes)},
             UNCHANGED <<current, recent, versionHash, restarts>>
      PROVE  Mirror!Next
  <2>1. n \in IF Handlers = {} THEN {} ELSE Notices
    OBVIOUS
  <2>2. store' \in {Mirror!ApplyUpdate(store, n.records), Mirror!ApplyDelete(store, n.deletes)}
    BY <1>4, MirrorOperators
  <2>3. Mirror!Patch
    BY <1>4, <2>1, <2>2 DEF Mirror!Patch
  <2>4. QED
    BY <2>3 DEF Mirror!Next
<1>5. ASSUME NEW h \in Handlers, NEW i \in DOMAIN notices, NotifyUpdate(h, i)
      PROVE  Mirror!Next
  <2>1. notices[i] \in Notices
    BY ElementOfSeq, LenProperties DEF IInv, TypeOK
  <2>2. QED
    BY <1>4, <1>5, <2>1 DEF NotifyUpdate
<1>6. ASSUME NEW h \in Handlers, NotifyDelete(h)
      PROVE  Mirror!Next
  BY <1>4, <1>6 DEF NotifyDelete, MirrorInv
<1>7. ASSUME Restart
      PROVE  Mirror!Next
  BY <1>7, MirrorOperators
     DEF Restart, Mirror!Next, Mirror!Reset, NoHash, Mirror!NoHash
<1>8. CASE UNCHANGED vars
  BY <1>8 DEF vars
<1>9. QED
  BY <1>1, <1>2, <1>3, <1>5, <1>6, <1>7, <1>8 DEF Next, Deliver, Finish

\* The cache is a mirror: with any number of handlers and notifications lost,
\* repeated or out of order, with any broken responses, it goes only through
\* contents the zone had, never back behind one it took before, and between two
\* snapshots only published patches touch it.
THEOREM CacheIsMirror == Spec => ImplementsZoneMirror
<1>1. Spec => []MirrorInv
  BY Invariance, InitMirrorInv, NextMirrorInv, PTL DEF Spec
<1>2. QED
  BY <1>1, Invariance, InitMirrors, NextMirrors, PTL
     DEF Spec, ImplementsZoneMirror, Mirror!Spec

-----------------------------------------------------------------------------
(* What "success" means.  The answer to a sync during which the zone did   *)
(* not change speaks of the version the controller still holds.            *)

LEMMA NotModifiedMeansUnchanged ==
    ASSUME NEW resp, resp.status = 304
    PROVE  CheckChanges(resp) = Unchanged
BY DEF CheckChanges, Decoded

\* Plugin and controller understand each other: what the controller answers is what
\* the client returns, and "unchanged" is said of equal hashes only.
THEOREM ControllerUnderstood ==
    ASSUME NEW v \in Versions, NEW h \in Versions
    PROVE  LET ctl == [secret |-> Secret, zone |-> Zone, version |-> v]
           IN  /\ FetchSnapshot(Respond(ctl, SnapshotRequest)) = Snapshot(v)
               /\ CheckChanges(Respond(ctl, ChangesRequest(h)))
                    = IF h = v THEN Unchanged ELSE Snapshot(v)
<1> DEFINE ctl == [secret |-> Secret, zone |-> Zone, version |-> v]
<1>1. /\ ctl.secret = Secret /\ ctl.zone = Zone /\ ctl.version = v
      /\ Zone # NoZone /\ v # NoHash /\ h # NoHash
  BY VersionsAssumption
<1> HIDE DEF ctl
<1>2. /\ Full(ctl).status = 200 /\ Full(ctl).body = "payload" /\ ~Full(ctl).unchanged
      /\ Full(ctl).zone = Zone /\ Full(ctl).hash = v
      /\ NotModified.status = 304
  BY <1>1 DEF Full, NotModified, Response
<1>3. Respond(ctl, SnapshotRequest) = Full(ctl)
  BY <1>1 DEF Respond, SnapshotRequest, Unauthorized, MissingParameter, UnknownZone, UpToDate
<1>4. Respond(ctl, ChangesRequest(h)) = IF h = v THEN NotModified ELSE Full(ctl)
  BY <1>1 DEF Respond, ChangesRequest, Unauthorized, MissingParameter, UnknownZone, UpToDate
<1>5. FetchSnapshot(Full(ctl)) = Snapshot(v)
  BY <1>1, <1>2 DEF FetchSnapshot, Decoded, Complete
<1>6. CheckChanges(Full(ctl)) = Snapshot(v) /\ CheckChanges(NotModified) = Unchanged
  <2>1. /\ Decoded(Full(ctl)) /\ Complete(Full(ctl)) /\ Full(ctl).status # 304
        /\ Full(ctl).hash = v /\ ~Full(ctl).unchanged
    BY <1>1, <1>2 DEF Decoded, Complete
  <2>2. CheckChanges(Full(ctl)) = Snapshot(v)
    BY <2>1 DEF CheckChanges
  <2>3. CheckChanges(NotModified) = Unchanged
    BY <1>2, NotModifiedMeansUnchanged
  <2> QED
    BY <2>2, <2>3
<1>7. QED
  BY <1>3, <1>4, <1>5, <1>6 DEF ctl

\* No answer says "unchanged" of another version than the one held.
LEMMA UnchangedMeansSince ==
    ASSUME current \in Versions, phase = "checking", NEW resp,
           \/ resp = Respond(Controller, Request) \/ resp \in FaultyAnswers,
           CheckChanges(resp) = Unchanged
    PROVE  since = current
<1>1. Request = ChangesRequest(since)
  BY DEF Request
<1>2. resp.status = 304 \/ resp.unchanged
  BY DEF CheckChanges, Unchanged, Failed, Snapshot
<1>3. \A status : ErrorPage(status).status = status /\ ~ErrorPage(status).unchanged
  BY DEF ErrorPage, Response
<1>4. \A ctl : Full(ctl).status = 200 /\ ~Full(ctl).unchanged
  BY DEF Full, Response
<1>5. CASE resp = Respond(Controller, Request)
  <2>1. resp = NotModified
    BY <1>2, <1>3, <1>4, <1>5 DEF Respond
  <2>2. UpToDate(Controller, Request)
    BY <1>3, <1>4, <1>5, <2>1 DEF Respond, NotModified, Response
  <2> QED
    BY <1>1, <2>2 DEF UpToDate, ChangesRequest, Controller
<1>6. CASE resp \in FaultyAnswers
  <2>1. \A ctl : ctl.secret = NoSecret => Respond(ctl, Request) = ErrorPage(401)
    BY <1>1, VersionsAssumption DEF Respond, Unauthorized, ChangesRequest
  <2>2. \A ctl : ctl.zone = NoZone =>
            Respond(ctl, Request) \in {ErrorPage(401), ErrorPage(400), ErrorPage(404)}
    BY <1>1, VersionsAssumption DEF Respond, UnknownZone, ChangesRequest
  <2>3. /\ [Controller EXCEPT !.secret = NoSecret].secret = NoSecret
        /\ [Controller EXCEPT !.zone = NoZone].zone = NoZone
    BY DEF Controller
  <2>4. resp.status # 304 /\ ~resp.unchanged
    <3> DEFINE full == Full(Controller)
               Other(r) == r.status # 304 /\ ~r.unchanged
    <3>1. full.status = 200 /\ ~full.unchanged
      BY <1>4
    <3>2. /\ \A b : Other([full EXCEPT !.body = b])
          /\ Other([full EXCEPT !.zone = NoZone])
          /\ Other([full EXCEPT !.hash = NoHash])
      BY <3>1 DEF Full, Response
    <3>3. \A status \in {400, 401, 404, 500} : Other(ErrorPage(status))
      BY <1>3
    <3>4. Respond([Controller EXCEPT !.secret = NoSecret], Request) = ErrorPage(401)
      BY <2>1, <2>3
    <3>5. Respond([Controller EXCEPT !.zone = NoZone], Request)
            \in {ErrorPage(401), ErrorPage(400), ErrorPage(404)}
      BY <2>2, <2>3
    <3>6. \/ resp = [full EXCEPT !.body = "broken"] \/ resp = [full EXCEPT !.body = "garbled"]
          \/ resp = [full EXCEPT !.zone = NoZone] \/ resp = [full EXCEPT !.hash = NoHash]
          \/ resp = ErrorPage(500)
          \/ resp = Respond([Controller EXCEPT !.secret = NoSecret], Request)
          \/ resp = Respond([Controller EXCEPT !.zone = NoZone], Request)
      BY <1>6 DEF FaultyAnswers
    <3> HIDE DEF full, Other
    <3>7. Other(resp)
      BY <3>2, <3>3, <3>4, <3>5, <3>6
    <3>8. QED
      BY <3>7 DEF Other
  <2> QED
    BY <1>2, <2>4
<1>7. QED
  BY <1>5, <1>6

\* An answer that came while the zone stood still carries its version, and "unchanged"
\* was said of its version.  An idle sync has no answer left.
QuietInv ==
    /\ phase = "idle" => reply = NoReply
    /\ quiet /\ reply # NoReply /\ Carries(reply) => reply.hash = current
    /\ quiet /\ phase = "checking" /\ reply # NoReply /\ CheckChanges(reply) = Unchanged =>
          since = current
    /\ SuccessMeansCurrent

LEMMA AnswerKeepsQuiet ==
    ASSUME IInv, QuietInv, Waiting, NEW resp, Answer(resp),
           \/ resp = Respond(Controller, Request)
           \/ resp \in FaultyAnswers
           \/ /\ UpToDate(Controller, Request)
              /\ resp = Response(200, "payload", NoZone, NoHash, TRUE)
    PROVE  QuietInv'
<1>1. current \in Versions /\ current # NoHash
  BY VersionsAssumption DEF IInv, TypeOK
<1>2. phase # "idle" /\ reply' = resp /\ UNCHANGED <<current, quiet, phase, since>>
  BY DEF Waiting, Answer, instance
<1>3. resp.hash \in {current, NoHash}
  BY <1>1, AnswersType, UnchangedAnswer
<1>4. Carries(resp) => resp.hash = current
  BY <1>3 DEF Carries, Complete
<1>5. phase = "checking" /\ CheckChanges(resp) = Unchanged => since = current
  <2> SUFFICES ASSUME phase = "checking", CheckChanges(resp) = Unchanged
               PROVE  since = current
    OBVIOUS
  <2>1. CASE resp = Respond(Controller, Request) \/ resp \in FaultyAnswers
    BY <1>1, <2>1, UnchangedMeansSince
  <2>2. CASE UpToDate(Controller, Request)
    BY <2>2 DEF UpToDate, Request, ChangesRequest, Controller
  <2> QED
    BY <2>1, <2>2
<1>6. QED
  BY <1>2, <1>4, <1>5 DEF QuietInv, SuccessMeansCurrent

LEMMA DoneKeepsQuiet ==
    ASSUME IInv, QuietInv, Done
    PROVE  QuietInv'
<1>1. PICK result \in Results :
          /\ Settle(result)
          /\ \A v : result = Snapshot(v) => Carries(reply) /\ reply.hash = v
          /\ result = Unchanged => phase = "checking" /\ CheckChanges(reply) = Unchanged
  <2>1. reply \in Responses /\ reply # NoReply
    BY DEF IInv, TypeOK, Done, InitialFetchDone, FetchDone, CheckDone
  <2>2. CASE InitialFetchDone \/ FetchDone
    BY <2>1, <2>2, FetchResults, FetchBrings DEF InitialFetchDone, FetchDone
  <2>3. CASE CheckDone
    BY <2>1, <2>3, CheckResults, CheckBrings DEF CheckDone
  <2>4. QED
    BY <2>2, <2>3 DEF Done
<1>2. reply # NoReply
  BY DEF Done, InitialFetchDone, FetchDone, CheckDone
<1>3. reply' = NoReply /\ phase' = "idle" /\ UNCHANGED <<current, quiet>>
  BY <1>1 DEF Settle, instance
<1>4. SuccessMeansCurrent'
  <2>1. CASE result = Failed
    <3>1. syncStatus' = "failed"
      BY <1>1, <2>1 DEF Settle, Failed
    <3>2. QED
      BY <3>1 DEF SuccessMeansCurrent
  <2>2. CASE result = Unchanged
    <3>1. versionHash' = versionHash
      BY <1>1, <2>2 DEF Settle, Unchanged
    <3>2. quiet => since = current
      BY <1>1, <1>2, <2>2 DEF QuietInv
    <3>3. since = versionHash
      BY <1>1, <2>2 DEF IInv, SinceIsCacheHash
    <3>4. QED
      BY <1>3, <3>1, <3>2, <3>3 DEF SuccessMeansCurrent
  <2>3. ASSUME NEW v \in Versions, result = Snapshot(v)
        PROVE  SuccessMeansCurrent'
    <3>1. versionHash' = v
      BY <1>1, <2>3 DEF Settle, Snapshot
    <3>2. quiet => v = current
      BY <1>1, <1>2, <2>3 DEF QuietInv
    <3>3. QED
      BY <1>3, <3>1, <3>2 DEF SuccessMeansCurrent
  <2>4. QED
    BY <2>1, <2>2, <2>3 DEF Results
<1>5. QED
  BY <1>3, <1>4 DEF QuietInv

LEMMA InitQuietInv == Init => QuietInv
BY DEF Init, QuietInv, SuccessMeansCurrent

LEMMA NextQuietInv == IInv /\ QuietInv /\ [Next]_vars => QuietInv'
<1> SUFFICES ASSUME IInv, QuietInv, [Next]_vars PROVE QuietInv'
  OBVIOUS
<1> USE DEF goroutine, webhook, controller, instance
<1>1. ASSUME NEW v \in Versions, Publish(v)
      PROVE  QuietInv'
  BY <1>1 DEF Publish, QuietInv, SuccessMeansCurrent
<1>2. ASSUME Serve
      PROVE  QuietInv'
  BY <1>2, AnswerKeepsQuiet DEF Serve
<1>3. ASSUME Misbehave
      PROVE  QuietInv'
  BY <1>3, AnswerKeepsQuiet DEF Misbehave
<1>4. ASSUME NEW i \in DOMAIN notices, Lose(i) \/ Reject(i)
      PROVE  QuietInv'
  BY <1>4 DEF Lose, Reject, QuietInv, SuccessMeansCurrent
<1>5. ASSUME PerformSync
      PROVE  QuietInv'
  BY <1>5 DEF PerformSync, QuietInv, SuccessMeansCurrent
<1>6. ASSUME Done
      PROVE  QuietInv'
  BY <1>6, DoneKeepsQuiet
<1>7. ASSUME NEW h \in Handlers, NotifyDelete(h) \/ \E i \in DOMAIN notices : NotifyUpdate(h, i)
      PROVE  QuietInv'
  BY <1>7 DEF NotifyDelete, NotifyUpdate, QuietInv, SuccessMeansCurrent
<1>8. ASSUME Restart
      PROVE  QuietInv'
  BY <1>8 DEF Restart, QuietInv, SuccessMeansCurrent
<1>9. CASE UNCHANGED vars
  BY <1>9 DEF vars, QuietInv, SuccessMeansCurrent
<1>10. QED
  BY <1>1, <1>2, <1>3, <1>4, <1>5, <1>6, <1>7, <1>8, <1>9 DEF Next, Deliver, Finish

\* A sync that reports "success" left the cache at the version of the zone, unless
\* the zone has changed since the sync began: whatever is broken in the answers, and
\* although the hash was compared long before.
THEOREM SuccessMeansCurrentInvariant == Spec => []SuccessMeansCurrent
<1>1. Spec => []QuietInv
  BY Invariance, InitQuietInv, NextQuietInv, PTL DEF Spec
<1>2. QuietInv => SuccessMeansCurrent
  BY DEF QuietInv
<1>3. QED
  BY <1>1, <1>2, PTL

-----------------------------------------------------------------------------
(* What the hash says about the records.                                   *)

\* A notification puts its own RRs at a key, removes those that are there or leaves
\* them as they are.
LEMMA NoticeAt ==
    ASSUME NEW n, NEW k, NEW s,
           NEW t \in {ApplyUpdate(s, n.records), ApplyDelete(s, n.deletes)}
    PROVE  LookupKey(t, k) = LookupKey(s, k) \/ Leaves(n, k, LookupKey(t, k))
<1>1. CASE t = ApplyUpdate(s, n.records)
  <2>1. CASE k \in WrittenKeys(n.records)
    <3>1. LookupKey(t, k) = LookupKey(ApplyUpdate(EmptyStore, n.records), k)
      BY <1>1, <2>1, ApplyUpdateAt DEF LookupKey
    <3>2. QED
      BY <2>1, <3>1 DEF Leaves
  <2>2. CASE k \notin WrittenKeys(n.records)
    BY <1>1, <2>2, ApplyUpdateAt DEF LookupKey
  <2>3. QED
    BY <2>1, <2>2
<1>2. CASE t = ApplyDelete(s, n.deletes)
  <2>1. CASE k \in DeletedKeys(n.deletes)
    <3>1. LookupKey(t, k) = {}
      BY <1>2, <2>1, ApplyDeleteAt DEF LookupKey
    <3>2. QED
      BY <2>1, <3>1 DEF Leaves
  <2>2. CASE k \notin DeletedKeys(n.deletes)
    BY <1>2, <2>2, ApplyDeleteAt DEF LookupKey
  <2>3. QED
    BY <2>1, <2>2
<1>3. QED
  BY <1>1, <1>2

LEMMA InitRecordsHaveOneSource == Init => RecordsHaveOneSource
BY DEF Init, RecordsHaveOneSource, Loaded, LookupKey, EmptyStore

LEMMA NextRecordsHaveOneSource ==
    IInv /\ MirrorInv /\ RecordsHaveOneSource /\ [Next]_vars => RecordsHaveOneSource'
<1> SUFFICES ASSUME IInv, MirrorInv, RecordsHaveOneSource, [Next]_vars
             PROVE  RecordsHaveOneSource'
  OBVIOUS
<1> USE DEF goroutine, webhook, controller, instance
<1>1. ASSUME UNCHANGED <<store, versionHash>>
      PROVE  RecordsHaveOneSource'
  BY <1>1 DEF RecordsHaveOneSource, Loaded
<1>2. ASSUME NEW h \in Handlers, NEW n \in Notices,
             store' \in {ApplyUpdate(store, n.records), ApplyDelete(store, n.deletes)},
             UNCHANGED versionHash
      PROVE  RecordsHaveOneSource'
  <2>1. ASSUME NEW k \in Keys
        PROVE  LookupKey(store', k) = LookupKey(store, k) \/ Leaves(n, k, LookupKey(store', k))
    BY <1>2, NoticeAt
  <2>2. \A k \in Keys : Loaded(k)' = Loaded(k)
    BY <1>2 DEF Loaded
  <2>3. QED
    BY <2>1, <2>2 DEF RecordsHaveOneSource
<1>3. ASSUME Done
      PROVE  RecordsHaveOneSource'
  <2>1. CASE UNCHANGED <<store, versionHash>>
    BY <1>1, <2>1
  <2>2. CASE versionHash' \in recent /\ store' = LoadSnapshot(Content[versionHash'])
    <3>1. versionHash' # NoHash
      BY <2>2, VersionsAssumption DEF IInv, TypeOK
    <3>2. QED
      BY <2>2, <3>1 DEF RecordsHaveOneSource, Loaded
  <2>3. QED
    BY <1>3, <2>1, <2>2, DoneRefreshes
<1>4. ASSUME NEW h \in Handlers, NEW i \in DOMAIN notices, NotifyUpdate(h, i)
      PROVE  RecordsHaveOneSource'
  <2>1. notices[i] \in Notices
    BY ElementOfSeq, LenProperties DEF IInv, TypeOK
  <2>2. QED
    BY <1>2, <1>4, <2>1 DEF NotifyUpdate
<1>5. ASSUME NEW h \in Handlers, NotifyDelete(h)
      PROVE  RecordsHaveOneSource'
  BY <1>2, <1>5 DEF NotifyDelete, MirrorInv
<1>6. ASSUME Restart
      PROVE  RecordsHaveOneSource'
  BY <1>6 DEF Restart, RecordsHaveOneSource, Loaded, LookupKey, EmptyStore
<1>7. ASSUME \/ \E v \in Versions : Publish(v)
             \/ Serve \/ Misbehave \/ PerformSync
             \/ \E i \in DOMAIN notices : Lose(i) \/ Reject(i)
             \/ UNCHANGED vars
      PROVE  RecordsHaveOneSource'
  BY <1>1, <1>7 DEF Publish, Serve, Misbehave, Answer, PerformSync, Lose, Reject, vars
<1>8. QED
  BY <1>3, <1>4, <1>5, <1>6, <1>7 DEF Next, Deliver, Finish

\* Whatever is lost, repeated or out of order: what the cache has at a key is what the
\* snapshot of its hash or a single notification put there.
THEOREM RecordsHaveOneSourceInvariant == Spec => []RecordsHaveOneSource
<1>1. Spec => []MirrorInv
  BY Invariance, InitMirrorInv, NextMirrorInv, PTL DEF Spec
<1>2. QED
  BY <1>1, Invariance, InitRecordsHaveOneSource, NextRecordsHaveOneSource, PTL DEF Spec

\* Without the webhook, the claim of docs/adr/002-hash-based-sync.md: a sync that says
\* "success" left in the cache what a fresh load of the zone would put there, unless
\* the zone has changed since it began.
THEOREM PollingIsExact ==
    ASSUME Handlers = {}
    PROVE  Spec => [](phase = "idle" /\ syncStatus = "success" /\ quiet =>
                        store = LoadSnapshot(Content[current]))
<1>1. IInv /\ SuccessMeansCurrent /\ RecordsHaveOneSource =>
        (phase = "idle" /\ syncStatus = "success" /\ quiet =>
            store = LoadSnapshot(Content[current]))
  <2> SUFFICES ASSUME IInv, SuccessMeansCurrent, RecordsHaveOneSource,
                      phase = "idle", syncStatus = "success", quiet
               PROVE  store = LoadSnapshot(Content[current])
    OBVIOUS
  <2>1. versionHash = current /\ versionHash # NoHash /\ current \in Versions /\ IsStore(store)
    BY DEF IInv, TypeOK, SuccessMeansCurrent, SuccessMeansLoaded
  <2>2. \A k \in Keys : LookupKey(store, k) = LookupKey(LoadSnapshot(Content[current]), k)
    BY <2>1 DEF RecordsHaveOneSource, Loaded
  <2>3. IsStore(LoadSnapshot(Content[current]))
    BY <2>1, SyncAssumption, LoadSnapshotIsStore
  <2>4. QED
    BY <2>1, <2>2, <2>3, StoresEqual
<1>2. QED
  BY <1>1, Invariance, SuccessMeansCurrentInvariant, RecordsHaveOneSourceInvariant, PTL
=============================================================================
