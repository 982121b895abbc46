------------------------ MODULE S3Multipart_proofs ------------------------
(***************************************************************************)
(* Proofs about S3Multipart: types, and MultipartSafe for any requests.    *)
(* A request acts on an upload record that it read earlier; the invariant  *)
(* says what such a record is worth.  Its generation is the current one    *)
(* only if nothing was written since, and a record that is completing or   *)
(* deleted never opens again.                                              *)
(***************************************************************************)
EXTENDS S3Multipart, FiniteSetTheorems, TLAPS

RequestState == [pc : Steps, seen : UploadRecord, part : PartVersion, base : Nat]

\* Complete has been decided: the list that will be published is fixed.
Decided == upload.status \in {"completing", "deleted"}

\* The parts are what a list asks for.
Holds(list) == \A i \in DOMAIN list : parts[list[i].part].content = list[i].content

\* A record read earlier: it is the record of now if its generation is.
SeenSound(s) ==
    /\ s.gen <= upload.gen
    /\ Live(upload) /\ s.gen = upload.gen => s = upload
    /\ s.status = "completing" => Decided /\ s.list = upload.list

\* A Complete past its decision publishes the list of the record.
DecidedFor(r) == Requests[r].op = "complete" /\ Decided /\ upload.list = Requests[r].list

Publishing == {"reread", "check", "base", "publish"}

\* What a request knows at each of its steps.
PartSound(r) ==
    /\ req[r].pc \in {"stored", "put"} => Requests[r].op = "part" /\ req[r].seen.status = "open"
    /\ req[r].pc = "put" /\ UploadMatches(req[r].seen) => WithinLimit(Requests[r].part)
CompleteSound(r) ==
    /\ req[r].pc = "select" => /\ Requests[r].op = "complete" /\ req[r].seen.status \in {"open", "completing"}
                               /\ req[r].seen.status = "completing" => req[r].seen.list = Requests[r].list
    /\ req[r].pc = "mark" => /\ Requests[r].op = "complete" /\ req[r].seen.status = "open"
                             /\ UploadMatches(req[r].seen) => Holds(Requests[r].list)
    /\ req[r].pc \in Publishing \cup {"retry"} => DecidedFor(r)
DeleteSound(r) ==
    /\ req[r].pc = "fence" => DecidedFor(r) \/ (Requests[r].op = "abort" /\ req[r].seen.status = "open")
    /\ req[r].pc = "parts" => upload.status = "deleted" /\ Requests[r].op \in {"complete", "abort"}
RequestSound(r) == SeenSound(req[r].seen) /\ PartSound(r) /\ CompleteSound(r) /\ DeleteSound(r)

LifecycleSound ==
    /\ SeenSound(lifecycle.seen)
    /\ lifecycle.pc = "parts" => upload.status = "deleted"

UploadSound ==
    /\ upload.status = "none" => upload.gen = 0
    /\ Live(upload) => upload.gen > 0

PublishedSound ==
    /\ published <= 1
    /\ published > 0 => Decided /\ Recorded(upload.list) # {}

\* Nothing can publish the upload any more, and nothing did.
Unpublishable ==
    /\ upload.status = "deleted" /\ published = 0
    /\ \A r \in Ids : req[r].pc \notin Publishing /\ req[r].seen.status # "completing"

\* An Abort that is answered, or deletes the parts before it is.
Aborting(r) == Requests[r].op = "abort" /\ req[r].pc = "parts"
AbortSound == aborted \/ (\E r \in Ids : Aborting(r)) => Unpublishable

MultipartInv ==
    /\ MultipartTypeOK /\ UploadSound /\ LifecycleSound
    /\ \A r \in Ids : RequestSound(r)
    /\ FinalMatchesParts /\ StagedWithinLimit
    /\ PublishedSound /\ AbortSound

-----------------------------------------------------------------------------
(* Lemmas about the operators *)

\* A request that has not begun, or has ended, has read nothing.
LEMMA IdleFacts ==
    ASSUME NEW step \in Steps
    PROVE  Idle(step) \in RequestState /\ Idle(step).pc = step /\ Idle(step).seen = None
  <1>1. None \in UploadRecord
    BY DEF None, UploadRecord, PartLists
  <1>2. NoPart \in PartVersion
    BY DEF NoPart, PartVersion, PartContents
  <1> QED BY <1>1, <1>2 DEF Idle, RequestState

\* What Goto() leaves of a request's state.
LEMMA GotoFacts ==
    ASSUME req \in [Ids -> RequestState], NEW r \in Ids, NEW step \in Steps, Goto(r, step)
    PROVE  /\ req' = [req EXCEPT ![r] = req'[r]] /\ req'[r] \in RequestState
           /\ req'[r].pc = step /\ req'[r].seen = IF step \in Ended THEN None ELSE req[r].seen
  <1>1. req' = [req EXCEPT ![r] = IF step \in Ended THEN Idle(step) ELSE [req[r] EXCEPT !.pc = step]]
    BY DEF Goto
  <1>2. CASE step \in Ended
    BY <1>1, <1>2, IdleFacts
  <1>3. CASE step \notin Ended
    <2>1. req'[r] = [req[r] EXCEPT !.pc = step]
      BY <1>1, <1>3
    <2>2. [req[r] EXCEPT !.pc = step] \in RequestState
      BY DEF RequestState
    <2>3. [req[r] EXCEPT !.pc = step].pc = step /\ [req[r] EXCEPT !.pc = step].seen = req[r].seen
      BY DEF RequestState
    <2> QED BY <1>1, <1>3, <2>1, <2>2, <2>3
  <1> QED BY <1>2, <1>3

\* GotoSeen() also keeps the record that was read.
LEMMA GotoSeenFacts ==
    ASSUME req \in [Ids -> RequestState], upload \in UploadRecord, NEW r \in Ids, NEW step \in Steps, GotoSeen(r, step)
    PROVE  /\ req' = [req EXCEPT ![r] = req'[r]] /\ req'[r] \in RequestState
           /\ req'[r].pc = step /\ req'[r].seen = IF step \in Ended THEN None ELSE upload
  <1>1. req' = [req EXCEPT ![r] = IF step \in Ended THEN Idle(step) ELSE [req[r] EXCEPT !.pc = step, !.seen = upload]]
    BY DEF GotoSeen
  <1>2. CASE step \in Ended
    BY <1>1, <1>2, IdleFacts
  <1>3. CASE step \notin Ended
    <2>1. req'[r] = [req[r] EXCEPT !.pc = step, !.seen = upload]
      BY <1>1, <1>3
    <2>2. [req[r] EXCEPT !.pc = step, !.seen = upload] \in RequestState
      BY DEF RequestState
    <2>3. [req[r] EXCEPT !.pc = step, !.seen = upload].pc = step /\ [req[r] EXCEPT !.pc = step, !.seen = upload].seen = upload
      BY DEF RequestState
    <2> QED BY <1>1, <1>3, <2>1, <2>2, <2>3
  <1> QED BY <1>2, <1>3

\* The types of a step that is taken in a sound state.
LEMMA MultipartTypes ==
    ASSUME MultipartInv
    PROVE  /\ upload \in UploadRecord /\ req \in [Ids -> RequestState] /\ upload.gen \in Nat
           /\ parts \in [PartNumbers -> PartVersion]
  BY DEF MultipartInv, MultipartTypeOK, RequestState, UploadRecord

\* A request that has ended knows nothing.
LEMMA EndedSound ==
    ASSUME MultipartInv, NEW r \in Ids, upload' = upload, req'[r].pc \in Ended, req'[r].seen = None
    PROVE  RequestSound(r)' /\ ~Aborting(r)' /\ req'[r].pc \notin Publishing /\ req'[r].seen.status # "completing"
  <1>1. None.gen <= upload.gen /\ (Live(upload) => None.gen # upload.gen) /\ None.status = "none"
    BY DEF MultipartInv, MultipartTypeOK, UploadRecord, UploadSound, None
  <1>2. SeenSound(req[r].seen)'
    BY <1>1 DEF SeenSound, Live
  <1>3. PartSound(r)' /\ CompleteSound(r)' /\ DeleteSound(r)'
    BY DEF PartSound, CompleteSound, DeleteSound, Ended, Publishing
  <1> QED BY <1>1, <1>2, <1>3 DEF RequestSound, Aborting, Publishing, Ended

\* A request keeps what it knows while the record and the parts stay.
LEMMA OthersSound ==
    ASSUME NEW q \in Ids, UNCHANGED <<upload, parts>>, req'[q] = req[q], RequestSound(q)
    PROVE  RequestSound(q)'
  <1>1. SeenSound(req[q].seen)'
    BY DEF RequestSound, SeenSound, Live, Decided
  <1>2. PartSound(q)'
    BY DEF RequestSound, PartSound, UploadMatches, Live, WithinLimit, Staged
  <1>3. CompleteSound(q)'
    BY DEF RequestSound, CompleteSound, UploadMatches, Live, Holds, DecidedFor, Decided
  <1>4. DeleteSound(q)'
    BY DEF RequestSound, DeleteSound, DecidedFor, Decided
  <1> QED BY <1>1, <1>2, <1>3, <1>4 DEF RequestSound

\* One request moves on, and the record, the parts and the lifecycle pass stay.
LEMMA MovesOnPublished ==
    ASSUME MultipartInv, NEW r \in Ids,
           req' = [req EXCEPT ![r] = req'[r]], req'[r] \in RequestState, UNCHANGED <<upload, parts, lifecycle>>,
           object' \in PartLists, revision' \in Nat, aborted' \in BOOLEAN, cancels' \in 0 .. MaxCancels,
           ledger' \in SUBSET (PartLists \X Nat), published' \in Nat, PublishedSound',
           RequestSound(r)', ~Aborting(r)', aborted' => aborted \/ Aborting(r),
           Unpublishable => /\ req'[r].pc \notin Publishing /\ req'[r].seen.status # "completing"
                            /\ published' = published
    PROVE  MultipartInv'
  <1>0. \A q \in Ids : q # r => req'[q] = req[q]
    BY MultipartTypes
  <1>1. MultipartTypeOK'
    <2>1. req' \in [Ids -> RequestState]
      BY MultipartTypes
    <2> QED BY <2>1 DEF MultipartInv, MultipartTypeOK, RequestState
  <1>2. UploadSound'
    BY DEF MultipartInv, UploadSound, Live
  <1>3. LifecycleSound'
    BY DEF MultipartInv, LifecycleSound, SeenSound, Live, Decided
  <1>4. \A q \in Ids : RequestSound(q)'
    BY <1>0, OthersSound DEF MultipartInv
  <1>5. FinalMatchesParts'
    BY DEF MultipartInv, FinalMatchesParts
  <1>6. StagedWithinLimit'
    BY DEF MultipartInv, StagedWithinLimit, Staged
  <1>8. AbortSound'
    <2> SUFFICES ASSUME aborted' \/ \E q \in Ids : Aborting(q)' PROVE Unpublishable'
      BY DEF AbortSound
    <2>1. aborted \/ \E q \in Ids : Aborting(q)
      BY <1>0 DEF Aborting
    <2>2. Unpublishable
      BY <2>1 DEF MultipartInv, AbortSound
    <2> QED BY <1>0, <2>2 DEF Unpublishable
  <1> QED BY <1>1, <1>2, <1>3, <1>4, <1>5, <1>6, <1>8 DEF MultipartInv

\* .. without publishing anything.
LEMMA MovesOn ==
    ASSUME MultipartInv, NEW r \in Ids,
           req' = [req EXCEPT ![r] = req'[r]], req'[r] \in RequestState,
           UNCHANGED <<upload, parts, ledger, lifecycle, published>>,
           object' \in PartLists, revision' \in Nat, aborted' \in BOOLEAN, cancels' \in 0 .. MaxCancels,
           RequestSound(r)', ~Aborting(r)', aborted' => aborted \/ Aborting(r),
           Unpublishable => req'[r].pc \notin Publishing /\ req'[r].seen.status # "completing"
    PROVE  MultipartInv'
  <1>1. PublishedSound'
    BY DEF MultipartInv, PublishedSound, Decided, Recorded
  <1>2. ledger' \in SUBSET (PartLists \X Nat) /\ published' \in Nat
    BY DEF MultipartInv, MultipartTypeOK
  <1> QED BY <1>1, <1>2, MovesOnPublished

\* What a request has just read is sound, and what it had read stays so.
LEMMA SeenNow ==
    ASSUME MultipartInv, NEW r \in Ids, upload' = upload, req'[r].seen = upload \/ req'[r].seen = req[r].seen
    PROVE  /\ SeenSound(req[r].seen)'
           /\ Unpublishable => req'[r].seen.status # "completing"
  <1>1. CASE req'[r].seen = upload
    <2>1. upload.gen <= upload.gen
      BY MultipartTypes
    <2> QED BY <1>1, <2>1 DEF SeenSound, Decided, Unpublishable
  <1>2. CASE req'[r].seen = req[r].seen
    BY <1>2 DEF MultipartInv, RequestSound, SeenSound, Live, Decided, Unpublishable
  <1> QED BY <1>1, <1>2

-----------------------------------------------------------------------------
(* UploadPart *)

\* UploadPart reads the record.
LEMMA ReadForPartKeeps == ASSUME MultipartInv, NEW r \in Ids, ReadForPart(r) PROVE MultipartInv'
  <1> DEFINE step == IF upload.status = "open" THEN "stored" ELSE "failed"
  <1>1. /\ GotoSeen(r, step) /\ step \in Steps /\ Requests[r].op = "part"
        /\ UNCHANGED <<upload, parts, object, revision, ledger, published, lifecycle, aborted, cancels>>
    BY DEF ReadForPart, At, objects, Steps
  <1>2. /\ req' = [req EXCEPT ![r] = req'[r]] /\ req'[r] \in RequestState
        /\ req'[r].pc = step /\ req'[r].seen = IF step \in Ended THEN None ELSE upload
    BY <1>1, GotoSeenFacts, MultipartTypes
  <1>3. object' \in PartLists /\ revision' \in Nat /\ aborted' \in BOOLEAN /\ cancels' \in 0 .. MaxCancels
    BY <1>1 DEF MultipartInv, MultipartTypeOK
  <1>4. CASE upload.status # "open"
    <2>1. req'[r].pc \in Ended /\ req'[r].seen = None
      BY <1>2, <1>4 DEF Ended
    <2> QED BY <1>1, <1>2, <1>3, <2>1, EndedSound, MovesOn
  <1>5. CASE upload.status = "open"
    <2>1. req'[r].pc = "stored" /\ req'[r].seen = upload
      BY <1>2, <1>5 DEF Ended
    <2>2. SeenSound(req[r].seen)' /\ (Unpublishable => req'[r].seen.status # "completing")
      BY <1>1, <2>1, SeenNow
    <2>3. RequestSound(r)'
      BY <1>1, <1>5, <2>1, <2>2 DEF RequestSound, PartSound, CompleteSound, DeleteSound, Publishing
    <2>4. ~Aborting(r)' /\ req'[r].pc \notin Publishing
      BY <2>1 DEF Aborting, Publishing
    <2> QED BY <1>1, <1>2, <1>3, <2>2, <2>3, <2>4, MovesOn
  <1> QED BY <1>4, <1>5

\* UploadPart checks the limit and reads the part's version.
LEMMA CheckStagedKeeps == ASSUME MultipartInv, NEW r \in Ids, CheckStaged(r) PROVE MultipartInv'
  <1> DEFINE p == Requests[r].part
             x == IF WithinLimit(p) THEN [req[r] EXCEPT !.pc = "put", !.part = parts[p]] ELSE Idle("failed")
  <1>1. /\ req' = [req EXCEPT ![r] = x] /\ req[r].pc = "stored" /\ Requests[r].op = "part"
        /\ UNCHANGED <<upload, parts, object, revision, ledger, published, lifecycle, aborted, cancels>>
    BY DEF CheckStaged, At, objects
  <1>3. object' \in PartLists /\ revision' \in Nat /\ aborted' \in BOOLEAN /\ cancels' \in 0 .. MaxCancels
    BY <1>1 DEF MultipartInv, MultipartTypeOK
  <1>4. CASE ~WithinLimit(p)
    <2>1. Idle("failed") \in RequestState /\ Idle("failed").pc = "failed" /\ Idle("failed").seen = None
      BY IdleFacts DEF Steps
    <2>2. /\ req' = [req EXCEPT ![r] = req'[r]] /\ req'[r] \in RequestState
          /\ req'[r].pc \in Ended /\ req'[r].seen = None
      BY <1>1, <1>4, <2>1, MultipartTypes DEF Ended
    <2> QED BY <1>1, <1>3, <2>2, EndedSound, MovesOn
  <1>5. CASE WithinLimit(p)
    <2>1. p \in PartNumbers /\ parts[p] \in PartVersion
      BY <1>1, MultipartAssumption, MultipartTypes
    <2>2. req[r] \in RequestState
      BY MultipartTypes
    <2>a. LET y == [req[r] EXCEPT !.pc = "put", !.part = parts[p]]
          IN  y \in RequestState /\ y.pc = "put" /\ y.seen = req[r].seen
      BY <2>1, <2>2 DEF RequestState, Steps
    <2>3. x \in RequestState /\ x.pc = "put" /\ x.seen = req[r].seen
      BY <1>5, <2>a
    <2> HIDE DEF x
    <2>4. /\ req' = [req EXCEPT ![r] = req'[r]] /\ req'[r] \in RequestState
          /\ req'[r].pc = "put" /\ req'[r].seen = req[r].seen
      BY <1>1, <2>3, MultipartTypes
    <2>5. SeenSound(req[r].seen)' /\ (Unpublishable => req'[r].seen.status # "completing")
      BY <1>1, <2>4, SeenNow
    <2>6. req[r].seen.status = "open"
      BY <1>1 DEF MultipartInv, RequestSound, PartSound
    <2>7. WithinLimit(Requests[r].part)'
      BY <1>1, <1>5 DEF WithinLimit, Staged
    <2>8. RequestSound(r)'
      BY <1>1, <2>4, <2>5, <2>6, <2>7 DEF RequestSound, PartSound, CompleteSound, DeleteSound, Publishing
    <2>9. ~Aborting(r)' /\ req'[r].pc \notin Publishing
      BY <2>4 DEF Aborting, Publishing
    <2> QED BY <1>1, <1>3, <2>4, <2>5, <2>8, <2>9, MovesOn
  <1> QED BY <1>4, <1>5

\* A request that fails or is answered leaves the rest alone.
LEMMA EndsKeeps ==
    ASSUME MultipartInv, NEW r \in Ids, NEW step \in Ended, Goto(r, step),
           UNCHANGED <<upload, parts, ledger, lifecycle, published>>,
           object' \in PartLists, revision' \in Nat, aborted' \in BOOLEAN, cancels' \in 0 .. MaxCancels,
           aborted' => aborted \/ Aborting(r)
    PROVE  MultipartInv'
  <1>1. /\ req' = [req EXCEPT ![r] = req'[r]] /\ req'[r] \in RequestState
        /\ req'[r].pc \in Ended /\ req'[r].seen = None
    BY GotoFacts, MultipartTypes DEF Ended, Steps
  <1> QED BY <1>1, EndedSound, MovesOn

-----------------------------------------------------------------------------
(* CompleteMultipartUpload *)

\* Complete reads the record.
LEMMA ReadForCompleteKeeps == ASSUME MultipartInv, NEW r \in Ids, ReadForComplete(r) PROVE MultipartInv'
  <1> DEFINE may == upload.status = "open" \/ (upload.status = "completing" /\ upload.list = Requests[r].list)
             step == IF may THEN "select" ELSE "failed"
  <1>1. /\ GotoSeen(r, step) /\ step \in Steps /\ Requests[r].op = "complete"
        /\ UNCHANGED <<upload, parts, object, revision, ledger, published, lifecycle, aborted, cancels>>
    BY DEF ReadForComplete, At, objects, Steps
  <1>2. /\ req' = [req EXCEPT ![r] = req'[r]] /\ req'[r] \in RequestState
        /\ req'[r].pc = step /\ req'[r].seen = IF step \in Ended THEN None ELSE upload
    BY <1>1, GotoSeenFacts, MultipartTypes
  <1>3. object' \in PartLists /\ revision' \in Nat /\ aborted' \in BOOLEAN /\ cancels' \in 0 .. MaxCancels
    BY <1>1 DEF MultipartInv, MultipartTypeOK
  <1>4. CASE ~may
    <2>1. req'[r].pc \in Ended /\ req'[r].seen = None
      BY <1>2, <1>4 DEF Ended
    <2> QED BY <1>1, <1>2, <1>3, <2>1, EndedSound, MovesOn
  <1>5. CASE may
    <2>1. req'[r].pc = "select" /\ req'[r].seen = upload
      BY <1>2, <1>5 DEF Ended
    <2>2. SeenSound(req[r].seen)' /\ (Unpublishable => req'[r].seen.status # "completing")
      BY <1>1, <2>1, SeenNow
    <2>3. RequestSound(r)'
      BY <1>1, <1>5, <2>1, <2>2 DEF RequestSound, PartSound, CompleteSound, DeleteSound, Publishing
    <2>4. ~Aborting(r)' /\ req'[r].pc \notin Publishing
      BY <2>1 DEF Aborting, Publishing
    <2> QED BY <1>1, <1>2, <1>3, <2>2, <2>3, <2>4, MovesOn
  <1> QED BY <1>4, <1>5

\* The parts hold what Complete asked for, as of the record it read; a retried
\* Complete was decided before.
LEMMA SelectPartsKeeps == ASSUME MultipartInv, NEW r \in Ids, SelectParts(r) PROVE MultipartInv'
  <1>1. /\ req[r].pc = "select" /\ Requests[r].op = "complete"
        /\ UNCHANGED <<upload, parts, object, revision, ledger, published, lifecycle, aborted, cancels>>
    BY DEF SelectParts, At, objects
  <1>2. \/ Goto(r, "failed")
        \/ Goto(r, "mark") /\ Holds(Requests[r].list) /\ req[r].seen.status = "open"
        \/ Goto(r, "check") /\ req[r].seen.status # "open"
    BY DEF SelectParts, Holds
  <1>3. object' \in PartLists /\ revision' \in Nat /\ aborted' \in BOOLEAN /\ cancels' \in 0 .. MaxCancels
    BY <1>1 DEF MultipartInv, MultipartTypeOK
  <1>4. CASE Goto(r, "failed")
    BY <1>1, <1>3, <1>4, EndsKeeps DEF Ended
  <1>5. CASE Goto(r, "mark") /\ Holds(Requests[r].list) /\ req[r].seen.status = "open"
    <2>1. /\ req' = [req EXCEPT ![r] = req'[r]] /\ req'[r] \in RequestState
          /\ req'[r].pc = "mark" /\ req'[r].seen = req[r].seen
      BY <1>5, GotoFacts, MultipartTypes DEF Ended, Steps
    <2>2. SeenSound(req[r].seen)' /\ (Unpublishable => req'[r].seen.status # "completing")
      BY <1>1, <2>1, SeenNow
    <2>3. Holds(Requests[r].list)'
      BY <1>1, <1>5 DEF Holds
    <2>4. RequestSound(r)'
      BY <1>1, <1>5, <2>1, <2>2, <2>3 DEF RequestSound, PartSound, CompleteSound, DeleteSound, Publishing
    <2>5. ~Aborting(r)' /\ req'[r].pc \notin Publishing
      BY <2>1 DEF Aborting, Publishing
    <2> QED BY <1>1, <1>3, <2>1, <2>2, <2>4, <2>5, MovesOn
  <1>6. CASE Goto(r, "check") /\ req[r].seen.status # "open"
    <2>1. /\ req' = [req EXCEPT ![r] = req'[r]] /\ req'[r] \in RequestState
          /\ req'[r].pc = "check" /\ req'[r].seen = req[r].seen
      BY <1>6, GotoFacts, MultipartTypes DEF Ended, Steps
    <2>2. req[r].seen.status = "completing" /\ req[r].seen.list = Requests[r].list
      BY <1>1, <1>6 DEF MultipartInv, RequestSound, CompleteSound
    <2>3. Decided /\ upload.list = Requests[r].list /\ ~Unpublishable
      BY <2>2 DEF MultipartInv, RequestSound, SeenSound, Unpublishable
    <2>4. DecidedFor(r)'
      BY <1>1, <2>3 DEF DecidedFor, Decided
    <2>5. SeenSound(req[r].seen)'
      BY <1>1, <2>1, SeenNow
    <2>6. RequestSound(r)' /\ ~Aborting(r)'
      BY <2>1, <2>4, <2>5 DEF RequestSound, PartSound, CompleteSound, DeleteSound, Publishing, Aborting
    <2> QED BY <1>1, <1>3, <2>1, <2>3, <2>6, MovesOn
  <1> QED BY <1>2, <1>4, <1>5, <1>6

\* A step of a Complete that is decided.
LEMMA DecidedMoves ==
    ASSUME MultipartInv, NEW r \in Ids, req[r].pc \in Publishing, Goto(r, "fence") \/ Goto(r, "base"),
           UNCHANGED <<upload, parts, object, revision, ledger, published, lifecycle, aborted, cancels>>
    PROVE  MultipartInv'
  <1>1. /\ req' = [req EXCEPT ![r] = req'[r]] /\ req'[r] \in RequestState
        /\ req'[r].pc \in {"fence", "base"} /\ req'[r].seen = req[r].seen
    BY GotoFacts, MultipartTypes DEF Ended, Steps
  <1>2. DecidedFor(r) /\ ~Unpublishable
    BY DEF MultipartInv, RequestSound, CompleteSound, Unpublishable
  <1>3. SeenSound(req[r].seen)' /\ DecidedFor(r)'
    BY <1>1, <1>2, SeenNow DEF DecidedFor, Decided
  <1>4. RequestSound(r)' /\ ~Aborting(r)'
    BY <1>1, <1>3 DEF RequestSound, PartSound, CompleteSound, DeleteSound, Publishing, Aborting
  <1>5. object' \in PartLists /\ revision' \in Nat /\ aborted' \in BOOLEAN /\ cancels' \in 0 .. MaxCancels
    BY DEF MultipartInv, MultipartTypeOK
  <1> QED BY <1>1, <1>2, <1>4, <1>5, MovesOn

\* Complete looks for the object an earlier attempt published.
LEMMA CheckPublishedKeeps == ASSUME MultipartInv, NEW r \in Ids, CheckPublished(r) PROVE MultipartInv'
  BY DecidedMoves DEF CheckPublished, At, objects, Publishing

\* Complete reads the record it has marked.
LEMMA RereadUploadKeeps == ASSUME MultipartInv, NEW r \in Ids, RereadUpload(r) PROVE MultipartInv'
  <1> DEFINE step == IF Live(upload) THEN "check" ELSE "failed"
  <1>1. /\ GotoSeen(r, step) /\ step \in Steps /\ req[r].pc = "reread"
        /\ UNCHANGED <<upload, parts, object, revision, ledger, published, lifecycle, aborted, cancels>>
    BY DEF RereadUpload, At, objects, Steps
  <1>2. /\ req' = [req EXCEPT ![r] = req'[r]] /\ req'[r] \in RequestState
        /\ req'[r].pc = step /\ req'[r].seen = IF step \in Ended THEN None ELSE upload
    BY <1>1, GotoSeenFacts, MultipartTypes
  <1>3. object' \in PartLists /\ revision' \in Nat /\ aborted' \in BOOLEAN /\ cancels' \in 0 .. MaxCancels
    BY <1>1 DEF MultipartInv, MultipartTypeOK
  <1>4. CASE ~Live(upload)
    <2>1. req'[r].pc \in Ended /\ req'[r].seen = None
      BY <1>2, <1>4 DEF Ended
    <2> QED BY <1>1, <1>2, <1>3, <2>1, EndedSound, MovesOn
  <1>5. CASE Live(upload)
    <2>1. req'[r].pc = "check" /\ req'[r].seen = upload
      BY <1>2, <1>5 DEF Ended
    <2>2. DecidedFor(r) /\ ~Unpublishable
      BY <1>1 DEF MultipartInv, RequestSound, CompleteSound, Unpublishable, Publishing
    <2>3. SeenSound(req[r].seen)' /\ DecidedFor(r)'
      BY <1>1, <2>1, <2>2, SeenNow DEF DecidedFor, Decided
    <2>4. RequestSound(r)' /\ ~Aborting(r)'
      BY <2>1, <2>3 DEF RequestSound, PartSound, CompleteSound, DeleteSound, Publishing, Aborting
    <2> QED BY <1>1, <1>2, <1>3, <2>2, <2>4, MovesOn
  <1> QED BY <1>4, <1>5

\* bucket_put() takes its base.
LEMMA ReadBaseKeeps == ASSUME MultipartInv, NEW r \in Ids, ReadBase(r) PROVE MultipartInv'
  <1> DEFINE x == [req[r] EXCEPT !.pc = "publish", !.base = revision]
  <1>1. /\ req' = [req EXCEPT ![r] = x] /\ req[r].pc = "base"
        /\ UNCHANGED <<upload, parts, object, revision, ledger, published, lifecycle, aborted, cancels>>
    BY DEF ReadBase, At, objects
  <1>2. object' \in PartLists /\ revision' \in Nat /\ aborted' \in BOOLEAN /\ cancels' \in 0 .. MaxCancels
    BY <1>1 DEF MultipartInv, MultipartTypeOK
  <1>3. req[r] \in RequestState /\ revision \in Nat
    BY MultipartTypes DEF MultipartInv, MultipartTypeOK
  <1>4. x \in RequestState /\ x.pc = "publish" /\ x.seen = req[r].seen
    BY <1>3 DEF RequestState, Steps
  <1> HIDE DEF x
  <1>5. /\ req' = [req EXCEPT ![r] = req'[r]] /\ req'[r] \in RequestState
        /\ req'[r].pc = "publish" /\ req'[r].seen = req[r].seen
    BY <1>1, <1>4, MultipartTypes
  <1>6. DecidedFor(r) /\ ~Unpublishable
    BY <1>1 DEF MultipartInv, RequestSound, CompleteSound, Unpublishable, Publishing
  <1>7. SeenSound(req[r].seen)' /\ DecidedFor(r)'
    BY <1>1, <1>5, <1>6, SeenNow DEF DecidedFor, Decided
  <1>8. RequestSound(r)' /\ ~Aborting(r)'
    BY <1>5, <1>7 DEF RequestSound, PartSound, CompleteSound, DeleteSound, Publishing, Aborting
  <1> QED BY <1>1, <1>2, <1>5, <1>6, <1>8, MovesOn

\* Only the first of the Completes that publish a list writes the object.
LEMMA PublishKeeps == ASSUME MultipartInv, NEW r \in Ids, Publish(r) PROVE MultipartInv'
  <1> DEFINE list == Requests[r].list
  <1>0. req[r].pc = "publish" /\ UNCHANGED <<upload, parts, lifecycle, aborted, cancels>>
    BY DEF Publish, At
  <1>1. DecidedFor(r) /\ ~Unpublishable
    BY <1>0 DEF MultipartInv, RequestSound, CompleteSound, Unpublishable, Publishing
  <1>a. \/ /\ Recorded(list) = {} /\ object' = list /\ revision' = revision + 1 /\ published' = published + 1
           /\ ledger' = ledger \cup {<<list, req[r].base>>} /\ Goto(r, "fence")
        \/ Goto(r, "fence") /\ UNCHANGED objects
        \/ Goto(r, "failed") /\ UNCHANGED objects
    BY DEF Publish
  <1>2. CASE Goto(r, "fence") /\ UNCHANGED objects
    BY <1>0, <1>2, DecidedMoves DEF objects, Publishing
  <1>3. CASE Goto(r, "failed") /\ UNCHANGED objects
    <2>1. object' \in PartLists /\ revision' \in Nat /\ aborted' \in BOOLEAN /\ cancels' \in 0 .. MaxCancels
      BY <1>0, <1>3 DEF MultipartInv, MultipartTypeOK, objects
    <2> QED BY <1>0, <1>3, <2>1, EndsKeeps DEF objects, Ended
  <1>4. CASE /\ Recorded(list) = {} /\ object' = list /\ revision' = revision + 1 /\ published' = published + 1
             /\ ledger' = ledger \cup {<<list, req[r].base>>} /\ Goto(r, "fence")
    <2>1. /\ req' = [req EXCEPT ![r] = req'[r]] /\ req'[r] \in RequestState
          /\ req'[r].pc = "fence" /\ req'[r].seen = req[r].seen
      BY <1>4, GotoFacts, MultipartTypes DEF Ended, Steps
    <2>2. list \in PartLists /\ req[r].base \in Nat
      BY MultipartTypes DEF PartLists, RequestState
    <2>3. /\ object' \in PartLists /\ revision' \in Nat /\ aborted' \in BOOLEAN /\ cancels' \in 0 .. MaxCancels
          /\ published' \in Nat
      BY <1>0, <1>4, <2>2 DEF MultipartInv, MultipartTypeOK
    <2>4. ledger' \in SUBSET (PartLists \X Nat)
      BY <1>4, <2>2 DEF MultipartInv, MultipartTypeOK
    <2>5. PublishedSound'
      <3>1. upload.list = list /\ upload' = upload /\ Decided'
        BY <1>0, <1>1 DEF DecidedFor, Decided
      <3>2. published = 0
        BY <1>4, <3>1 DEF MultipartInv, MultipartTypeOK, PublishedSound
      <3>3. <<list, req[r].base>> \in Recorded(upload.list)'
        BY <1>4, <3>1 DEF Recorded
      <3> QED BY <1>4, <3>1, <3>2, <3>3 DEF PublishedSound
    <2>6. SeenSound(req[r].seen)' /\ DecidedFor(r)'
      BY <1>0, <1>1, <2>1, SeenNow DEF DecidedFor, Decided
    <2>7. RequestSound(r)' /\ ~Aborting(r)'
      BY <2>1, <2>6 DEF RequestSound, PartSound, CompleteSound, DeleteSound, Publishing, Aborting
    <2> QED BY <1>0, <1>1, <2>1, <2>3, <2>4, <2>5, <2>7, MovesOnPublished
  <1> QED BY <1>a, <1>2, <1>3, <1>4

-----------------------------------------------------------------------------
(* Writes of the upload record *)

\* While the upload is open nothing is decided, published or aborted.
LEMMA NothingDecided ==
    ASSUME MultipartInv, upload.status \in {"none", "open"}
    PROVE  /\ published = 0 /\ ~aborted /\ lifecycle.pc # "parts" /\ lifecycle.seen.status # "completing"
           /\ \A q \in Ids : /\ req[q].pc \notin Publishing \cup {"retry", "parts"}
                             /\ req[q].seen.status # "completing" /\ ~Aborting(q)
  <1>1. ~Decided /\ upload.status # "deleted" /\ ~Unpublishable
    BY DEF Decided, Unpublishable
  <1>2. published = 0
    BY <1>1 DEF MultipartInv, MultipartTypeOK, PublishedSound
  <1>3. ~aborted /\ \A q \in Ids : ~Aborting(q)
    BY <1>1 DEF MultipartInv, MultipartTypeOK, AbortSound
  <1>4. lifecycle.pc # "parts" /\ lifecycle.seen.status # "completing"
    BY <1>1 DEF MultipartInv, LifecycleSound, SeenSound
  <1>5. \A q \in Ids : req[q].pc \notin Publishing \cup {"retry", "parts"} /\ req[q].seen.status # "completing"
    BY <1>1 DEF MultipartInv, RequestSound, SeenSound, CompleteSound, DeleteSound, DecidedFor
  <1> QED BY <1>2, <1>3, <1>4, <1>5

\* A written record outdates what the requests have read.
LEMMA RecordWritten ==
    ASSUME MultipartInv, upload.status \in {"none", "open"}, upload' \in UploadRecord, upload'.gen > upload.gen,
           NEW q \in Ids, req'[q] = req[q]
    PROVE  RequestSound(q)'
  <1>0. req[q].seen \in UploadRecord /\ upload \in UploadRecord
    BY MultipartTypes DEF RequestState
  <1>1. req[q].seen.gen \in Nat /\ upload.gen \in Nat /\ upload'.gen \in Nat
    BY <1>0 DEF UploadRecord
  <1>2. req[q].seen.gen <= upload.gen
    BY DEF MultipartInv, RequestSound, SeenSound
  <1>3. req[q].seen.gen <= upload'.gen /\ req[q].seen.gen # upload'.gen
    BY <1>1, <1>2
  <1>4. req[q].pc \notin Publishing \cup {"retry", "parts"} /\ req[q].seen.status # "completing"
    BY NothingDecided
  <1>5. ~UploadMatches(req[q].seen)'
    BY <1>3 DEF UploadMatches
  <1>6. SeenSound(req[q].seen)'
    BY <1>3, <1>4 DEF SeenSound
  <1>7. PartSound(q)'
    BY <1>5 DEF MultipartInv, RequestSound, PartSound
  <1>8. CompleteSound(q)'
    BY <1>4, <1>5 DEF MultipartInv, RequestSound, CompleteSound
  <1>9. DeleteSound(q)'
    <2>1. ~DecidedFor(q)
      BY DEF DecidedFor, Decided
    <2> QED BY <1>4, <2>1 DEF MultipartInv, RequestSound, DeleteSound
  <1> QED BY <1>6, <1>7, <1>8, <1>9 DEF RequestSound

\* .. and what the lifecycle pass has read.
LEMMA RecordWrittenLifecycle ==
    ASSUME MultipartInv, upload.status \in {"none", "open"}, upload' \in UploadRecord, upload'.gen > upload.gen,
           lifecycle' = lifecycle
    PROVE  LifecycleSound'
  <1>1. lifecycle.seen.gen \in Nat /\ upload.gen \in Nat /\ upload'.gen \in Nat
    BY DEF MultipartInv, MultipartTypeOK, UploadRecord
  <1>2. lifecycle.seen.gen <= upload.gen
    BY DEF MultipartInv, LifecycleSound, SeenSound
  <1>3. lifecycle.seen.gen <= upload'.gen /\ lifecycle.seen.gen # upload'.gen
    BY <1>1, <1>2
  <1> QED BY <1>3, NothingDecided DEF LifecycleSound, SeenSound

\* A deleted record matches nothing that was read.
LEMMA RecordDeleted ==
    ASSUME MultipartInv, Live(upload), upload' = [upload EXCEPT !.status = "deleted"], parts' = parts
    PROVE  /\ upload' \in UploadRecord /\ upload'.status = "deleted" /\ upload'.gen = upload.gen /\ upload'.list = upload.list
           /\ UploadSound' /\ FinalMatchesParts' /\ StagedWithinLimit' /\ ~aborted /\ \A q \in Ids : ~Aborting(q)
           /\ SeenSound(lifecycle.seen) /\ lifecycle.pc # "parts"
           /\ \A q \in Ids : req'[q] = req[q] => RequestSound(q)'
  <1>1. /\ upload' \in UploadRecord /\ upload'.status = "deleted" /\ upload'.gen = upload.gen /\ upload'.list = upload.list
    BY MultipartTypes DEF UploadRecord
  <1>2. UploadSound' /\ FinalMatchesParts'
    BY <1>1 DEF UploadSound, FinalMatchesParts, Live
  <1>3. StagedWithinLimit'
    BY DEF MultipartInv, StagedWithinLimit, Staged
  <1>4. upload.status # "deleted" /\ ~Unpublishable
    BY DEF Live, Unpublishable
  <1>5. ~aborted /\ \A q \in Ids : ~Aborting(q)
    BY <1>4 DEF MultipartInv, MultipartTypeOK, AbortSound
  <1>6. SeenSound(lifecycle.seen) /\ lifecycle.pc # "parts"
    BY <1>4 DEF MultipartInv, LifecycleSound
  <1>7. ASSUME NEW q \in Ids, req'[q] = req[q] PROVE RequestSound(q)'
    <2>1. ~Live(upload') /\ Decided' /\ ~UploadMatches(req[q].seen)'
      BY <1>1 DEF Live, Decided, UploadMatches
    <2>2. SeenSound(req[q].seen)'
      BY <1>1, <1>7, <2>1 DEF MultipartInv, RequestSound, SeenSound
    <2>3. PartSound(q)'
      BY <1>7, <2>1 DEF MultipartInv, RequestSound, PartSound
    <2>4. DecidedFor(q) => DecidedFor(q)'
      BY <1>1, <2>1 DEF DecidedFor
    <2>5. CompleteSound(q)'
      BY <1>7, <2>1, <2>4 DEF MultipartInv, RequestSound, CompleteSound
    <2>6. DeleteSound(q)'
      BY <1>1, <1>7, <2>4 DEF MultipartInv, RequestSound, DeleteSound
    <2> QED BY <2>2, <2>3, <2>5, <2>6 DEF RequestSound
  <1> QED BY <1>1, <1>2, <1>3, <1>5, <1>6, <1>7

\* A step that writes an open record again, or marks it completing.
LEMMA RecordStep ==
    ASSUME MultipartInv, upload.status \in {"none", "open"}, upload' \in UploadRecord, upload'.gen > upload.gen, Live(upload'),
           UNCHANGED <<object, revision, ledger, published, lifecycle, aborted, cancels>>,
           parts' \in [PartNumbers -> PartVersion], req' \in [Ids -> RequestState],
           \A q \in Ids : req'[q] = req[q] \/ (RequestSound(q)' /\ ~Aborting(q)'),
           FinalMatchesParts', StagedWithinLimit'
    PROVE  MultipartInv'
  <1>1. MultipartTypeOK'
    BY DEF MultipartInv, MultipartTypeOK, RequestState
  <1>2. UploadSound'
    <2>1. upload'.gen \in Nat /\ upload.gen \in Nat
      BY MultipartTypes DEF UploadRecord
    <2> QED BY <2>1 DEF UploadSound, Live
  <1>3. LifecycleSound'
    BY RecordWrittenLifecycle
  <1>4. \A q \in Ids : RequestSound(q)'
    BY RecordWritten
  <1>5. PublishedSound'
    BY NothingDecided DEF PublishedSound
  <1>6. AbortSound'
    <2>1. \A q \in Ids : ~Aborting(q)'
      BY NothingDecided DEF Aborting
    <2> QED BY <2>1, NothingDecided DEF AbortSound
  <1> QED BY <1>1, <1>2, <1>3, <1>4, <1>5, <1>6 DEF MultipartInv

\* The record is created.
LEMMA CreateUploadKeeps == ASSUME MultipartInv, CreateUpload PROVE MultipartInv'
  <1>1. /\ upload.status = "none" /\ upload' = [status |-> "open", gen |-> 1, list |-> <<>>]
        /\ UNCHANGED <<parts, object, revision, ledger, published, req, lifecycle, aborted, cancels>>
    BY DEF CreateUpload, objects
  <1>2. upload' \in UploadRecord /\ upload'.gen = 1 /\ upload'.status = "open"
    BY <1>1 DEF UploadRecord, PartLists
  <1>3. upload.gen = 0
    BY <1>1 DEF MultipartInv, UploadSound
  <1>4. Live(upload') /\ upload'.gen > upload.gen
    BY <1>2, <1>3 DEF Live
  <1>5. FinalMatchesParts' /\ StagedWithinLimit'
    BY <1>1, <1>2 DEF MultipartInv, FinalMatchesParts, StagedWithinLimit, Staged
  <1>6. parts' \in [PartNumbers -> PartVersion] /\ req' \in [Ids -> RequestState]
    BY <1>1, MultipartTypes
  <1> QED BY <1>1, <1>2, <1>4, <1>5, <1>6, RecordStep

\* A part is stored only if nothing was since its request read the record, so
\* that the limit it checked still holds.
LEMMA PutPartKeeps == ASSUME MultipartInv, NEW r \in Ids, PutPart(r) PROVE MultipartInv'
  <1> DEFINE p == Requests[r].part
  <1>1. /\ req[r].pc = "put" /\ Requests[r].op = "part"
        /\ UNCHANGED <<object, revision, ledger, published, lifecycle, aborted, cancels>>
    BY DEF PutPart, At, objects
  <1>2. \/ Goto(r, "failed") /\ UNCHANGED <<upload, parts>>
        \/ /\ UploadMatches(req[r].seen) /\ Goto(r, "done") /\ upload' = [req[r].seen EXCEPT !.gen = upload.gen + 1]
           /\ parts' = [parts EXCEPT ![p] = [content |-> Requests[r].content, gen |-> parts[p].gen + 1]]
    BY DEF PutPart
  <1>3. CASE Goto(r, "failed") /\ UNCHANGED <<upload, parts>>
    <2>1. object' \in PartLists /\ revision' \in Nat /\ aborted' \in BOOLEAN /\ cancels' \in 0 .. MaxCancels
      BY <1>1 DEF MultipartInv, MultipartTypeOK
    <2> QED BY <1>1, <1>3, <2>1, EndsKeeps DEF Ended
  <1>4. CASE /\ UploadMatches(req[r].seen) /\ Goto(r, "done") /\ upload' = [req[r].seen EXCEPT !.gen = upload.gen + 1]
             /\ parts' = [parts EXCEPT ![p] = [content |-> Requests[r].content, gen |-> parts[p].gen + 1]]
    <2>1. req[r].seen = upload /\ upload.status = "open" /\ WithinLimit(p)
      BY <1>1, <1>4 DEF MultipartInv, RequestSound, SeenSound, PartSound, UploadMatches
    <2>2. /\ upload' \in UploadRecord /\ upload'.gen = upload.gen + 1 /\ upload'.status = "open" /\ upload.gen \in Nat
      BY <1>4, <2>1, MultipartTypes DEF UploadRecord
    <2>3. p \in PartNumbers /\ parts[p] \in PartVersion /\ parts \in [PartNumbers -> PartVersion]
      BY <1>1, MultipartAssumption, MultipartTypes
    <2>4. [content |-> Requests[r].content, gen |-> parts[p].gen + 1] \in PartVersion
      BY <2>3 DEF PartVersion, PartContents
    <2>5. parts' \in [PartNumbers -> PartVersion]
      BY <1>4, <2>3, <2>4
    <2>6. StagedWithinLimit'
      <3>1. Staged' \subseteq Staged \cup {p}
        BY <1>4, <2>3 DEF Staged
      <3>2. IsFiniteSet(Staged \cup {p})
        BY <2>3, MultipartAssumption, FS_Subset DEF Staged
      <3>3. Cardinality(Staged') <= Cardinality(Staged \cup {p}) /\ Cardinality(Staged') \in Nat
            /\ Cardinality(Staged \cup {p}) \in Nat
        BY <3>1, <3>2, FS_Subset, FS_CardinalityType
      <3> QED BY <2>1, <3>3, MultipartAssumption DEF StagedWithinLimit, WithinLimit
    <2>7. FinalMatchesParts'
      BY <2>2 DEF FinalMatchesParts
    <2>8. /\ req' = [req EXCEPT ![r] = req'[r]] /\ req'[r] \in RequestState
          /\ req'[r].pc = "done" /\ req'[r].seen = None
      BY <1>4, GotoFacts, MultipartTypes DEF Ended, Steps
    <2>9. RequestSound(r)' /\ ~Aborting(r)'
      <3>1. None.gen <= upload'.gen /\ None.gen # upload'.gen /\ None.status = "none"
        BY <2>2 DEF None
      <3>2. SeenSound(req[r].seen)'
        BY <2>8, <3>1 DEF SeenSound
      <3> QED BY <2>8, <3>2 DEF RequestSound, PartSound, CompleteSound, DeleteSound, Publishing, Aborting
    <2>a. req' \in [Ids -> RequestState] /\ \A q \in Ids : q # r => req'[q] = req[q]
      BY <2>8, MultipartTypes
    <2>b. Live(upload') /\ upload'.gen > upload.gen
      BY <2>2 DEF Live
    <2> QED BY <1>1, <2>1, <2>2, <2>5, <2>6, <2>7, <2>9, <2>a, <2>b, RecordStep
  <1> QED BY <1>2, <1>3, <1>4

\* Complete is decided only if nothing was written since it read the record, so
\* that the parts it selected are the parts.
LEMMA MarkCompletingKeeps == ASSUME MultipartInv, NEW r \in Ids, MarkCompleting(r) PROVE MultipartInv'
  <1> DEFINE list == Requests[r].list
  <1>1. /\ req[r].pc = "mark" /\ Requests[r].op = "complete"
        /\ UNCHANGED <<parts, object, revision, ledger, published, lifecycle, aborted, cancels>>
    BY DEF MarkCompleting, At, objects
  <1>2. \/ Goto(r, "failed") /\ UNCHANGED upload
        \/ /\ UploadMatches(req[r].seen) /\ Goto(r, "reread")
           /\ upload' = [status |-> "completing", gen |-> upload.gen + 1, list |-> list]
    BY DEF MarkCompleting
  <1>3. CASE Goto(r, "failed") /\ UNCHANGED upload
    <2>1. object' \in PartLists /\ revision' \in Nat /\ aborted' \in BOOLEAN /\ cancels' \in 0 .. MaxCancels
      BY <1>1 DEF MultipartInv, MultipartTypeOK
    <2> QED BY <1>1, <1>3, <2>1, EndsKeeps DEF Ended
  <1>4. CASE /\ UploadMatches(req[r].seen) /\ Goto(r, "reread")
             /\ upload' = [status |-> "completing", gen |-> upload.gen + 1, list |-> list]
    <2>1. req[r].seen = upload /\ upload.status = "open" /\ Holds(list)
      BY <1>1, <1>4 DEF MultipartInv, RequestSound, SeenSound, CompleteSound, UploadMatches
    <2>2. /\ upload' \in UploadRecord /\ upload'.gen = upload.gen + 1 /\ upload'.status = "completing"
          /\ upload'.list = list /\ upload.gen \in Nat
      BY <1>4, MultipartTypes DEF UploadRecord, PartLists
    <2>3. FinalMatchesParts'
      BY <1>1, <2>1, <2>2 DEF FinalMatchesParts, Holds
    <2>4. StagedWithinLimit'
      BY <1>1 DEF MultipartInv, StagedWithinLimit, Staged
    <2>5. /\ req' = [req EXCEPT ![r] = req'[r]] /\ req'[r] \in RequestState
          /\ req'[r].pc = "reread" /\ req'[r].seen = upload
      BY <1>4, <2>1, GotoFacts, MultipartTypes DEF Ended, Steps
    <2>6. SeenSound(req[r].seen)'
      BY <2>1, <2>2, <2>5 DEF SeenSound
    <2>7. DecidedFor(r)'
      BY <1>1, <2>2 DEF DecidedFor, Decided
    <2>8. RequestSound(r)' /\ ~Aborting(r)'
      BY <2>5, <2>6, <2>7 DEF RequestSound, PartSound, CompleteSound, DeleteSound, Publishing, Aborting
    <2>9. req' \in [Ids -> RequestState] /\ \A q \in Ids : q # r => req'[q] = req[q]
      BY <2>5, MultipartTypes
    <2>a. Live(upload') /\ upload'.gen > upload.gen /\ parts' \in [PartNumbers -> PartVersion]
      BY <1>1, <2>2, MultipartTypes DEF Live
    <2> QED BY <1>1, <2>1, <2>2, <2>3, <2>4, <2>8, <2>9, <2>a, RecordStep
  <1> QED BY <1>2, <1>3, <1>4

-----------------------------------------------------------------------------
(* delete_multipart_upload() *)

\* Abort reads the record.
LEMMA ReadForAbortKeeps == ASSUME MultipartInv, NEW r \in Ids, ReadForAbort(r) PROVE MultipartInv'
  <1> DEFINE step == IF upload.status = "open" THEN "fence" ELSE "failed"
  <1>1. /\ GotoSeen(r, step) /\ step \in Steps /\ Requests[r].op = "abort"
        /\ UNCHANGED <<upload, parts, object, revision, ledger, published, lifecycle, aborted, cancels>>
    BY DEF ReadForAbort, At, objects, Steps
  <1>2. /\ req' = [req EXCEPT ![r] = req'[r]] /\ req'[r] \in RequestState
        /\ req'[r].pc = step /\ req'[r].seen = IF step \in Ended THEN None ELSE upload
    BY <1>1, GotoSeenFacts, MultipartTypes
  <1>3. object' \in PartLists /\ revision' \in Nat /\ aborted' \in BOOLEAN /\ cancels' \in 0 .. MaxCancels
    BY <1>1 DEF MultipartInv, MultipartTypeOK
  <1>4. CASE upload.status # "open"
    <2>1. req'[r].pc \in Ended /\ req'[r].seen = None
      BY <1>2, <1>4 DEF Ended
    <2> QED BY <1>1, <1>2, <1>3, <2>1, EndedSound, MovesOn
  <1>5. CASE upload.status = "open"
    <2>1. req'[r].pc = "fence" /\ req'[r].seen = upload
      BY <1>2, <1>5 DEF Ended
    <2>2. SeenSound(req[r].seen)' /\ (Unpublishable => req'[r].seen.status # "completing")
      BY <1>1, <2>1, SeenNow
    <2>3. RequestSound(r)'
      BY <1>1, <1>5, <2>1, <2>2 DEF RequestSound, PartSound, CompleteSound, DeleteSound, Publishing
    <2>4. ~Aborting(r)' /\ req'[r].pc \notin Publishing
      BY <2>1 DEF Aborting, Publishing
    <2> QED BY <1>1, <1>2, <1>3, <2>2, <2>3, <2>4, MovesOn
  <1> QED BY <1>4, <1>5

\* The upload is deleted: by a Complete that is decided, or by an Abort of an
\* open upload, after which nothing can decide.
LEMMA FenceUploadKeeps == ASSUME MultipartInv, NEW r \in Ids, FenceUpload(r) PROVE MultipartInv'
  <1>1. /\ req[r].pc = "fence"
        /\ UNCHANGED <<parts, object, revision, ledger, published, lifecycle, aborted, cancels>>
    BY DEF FenceUpload, objects
  <1>2. \/ Requests[r].op = "complete" /\ Goto(r, "retry") /\ UNCHANGED upload
        \/ Goto(r, "failed") /\ UNCHANGED upload
        \/ UploadMatches(req[r].seen) /\ Goto(r, "parts") /\ upload' = [upload EXCEPT !.status = "deleted"]
    BY DEF FenceUpload
  <1>3. object' \in PartLists /\ revision' \in Nat /\ aborted' \in BOOLEAN /\ cancels' \in 0 .. MaxCancels
    BY <1>1 DEF MultipartInv, MultipartTypeOK
  <1>4. CASE Goto(r, "failed") /\ UNCHANGED upload
    BY <1>1, <1>3, <1>4, EndsKeeps DEF Ended
  <1>5. CASE Requests[r].op = "complete" /\ Goto(r, "retry") /\ UNCHANGED upload
    <2>1. /\ req' = [req EXCEPT ![r] = req'[r]] /\ req'[r] \in RequestState
          /\ req'[r].pc = "retry" /\ req'[r].seen = req[r].seen
      BY <1>5, GotoFacts, MultipartTypes DEF Ended, Steps
    <2>2. SeenSound(req[r].seen)' /\ (Unpublishable => req'[r].seen.status # "completing")
      BY <1>5, <2>1, SeenNow
    <2>3. DecidedFor(r)'
      BY <1>1, <1>5 DEF MultipartInv, RequestSound, DeleteSound, DecidedFor, Decided
    <2>4. RequestSound(r)' /\ ~Aborting(r)' /\ req'[r].pc \notin Publishing
      BY <2>1, <2>2, <2>3 DEF RequestSound, PartSound, CompleteSound, DeleteSound, Publishing, Aborting
    <2> QED BY <1>1, <1>3, <1>5, <2>1, <2>2, <2>4, MovesOn
  <1>6. CASE UploadMatches(req[r].seen) /\ Goto(r, "parts") /\ upload' = [upload EXCEPT !.status = "deleted"]
    <2>0. Live(upload) /\ req[r].seen = upload
      BY <1>6 DEF MultipartInv, RequestSound, SeenSound, UploadMatches
    <2>1. /\ req' = [req EXCEPT ![r] = req'[r]] /\ req'[r] \in RequestState
          /\ req'[r].pc = "parts" /\ req'[r].seen = req[r].seen
      BY <1>6, GotoFacts, MultipartTypes DEF Ended, Steps
    <2>2. /\ upload' \in UploadRecord /\ upload'.status = "deleted" /\ upload'.gen = upload.gen /\ upload'.list = upload.list
          /\ UploadSound' /\ FinalMatchesParts' /\ StagedWithinLimit' /\ ~aborted /\ \A q \in Ids : ~Aborting(q)
          /\ SeenSound(lifecycle.seen) /\ lifecycle.pc # "parts"
          /\ \A q \in Ids : req'[q] = req[q] => RequestSound(q)'
      BY <1>1, <1>6, <2>0, RecordDeleted
    <2>3. req' \in [Ids -> RequestState] /\ \A q \in Ids : q # r => req'[q] = req[q]
      BY <2>1, MultipartTypes
    <2>4. MultipartTypeOK'
      BY <1>1, <2>2, <2>3 DEF MultipartInv, MultipartTypeOK, RequestState
    <2>5. LifecycleSound'
      BY <1>1, <2>2 DEF LifecycleSound, SeenSound, Live, Decided
    <2>6. RequestSound(r)'
      <3>1. SeenSound(req[r].seen)'
        BY <2>0, <2>1, <2>2, MultipartTypes DEF SeenSound, Live, Decided
      <3>2. Requests[r].op \in {"complete", "abort"}
        BY <1>1 DEF MultipartInv, RequestSound, DeleteSound, DecidedFor
      <3> QED BY <2>1, <2>2, <3>1, <3>2 DEF RequestSound, PartSound, CompleteSound, DeleteSound, Publishing
    <2>7. \A q \in Ids : RequestSound(q)'
      BY <2>2, <2>3, <2>6
    <2>8. PublishedSound'
      BY <1>1, <2>2 DEF MultipartInv, PublishedSound, Decided, Recorded
    <2>9. AbortSound'
      <3>1. CASE Requests[r].op = "abort"
        <4>1. upload.status = "open"
          BY <1>1, <2>0, <3>1 DEF MultipartInv, RequestSound, DeleteSound, DecidedFor
        <4>2. published = 0 /\ \A q \in Ids : req[q].pc \notin Publishing /\ req[q].seen.status # "completing"
          BY <4>1, NothingDecided
        <4>3. Unpublishable'
          BY <1>1, <2>1, <2>2, <2>3, <4>2 DEF Unpublishable, Publishing
        <4> QED BY <4>3 DEF AbortSound
      <3>2. CASE Requests[r].op # "abort"
        <4>1. \A q \in Ids : ~Aborting(q)'
          BY <2>2, <2>3, <3>2 DEF Aborting
        <4> QED BY <1>1, <2>2, <4>1 DEF AbortSound
      <3> QED BY <3>1, <3>2
    <2> QED BY <2>2, <2>4, <2>5, <2>7, <2>8, <2>9 DEF MultipartInv
  <1> QED BY <1>2, <1>4, <1>5, <1>6

\* Nobody relies on the parts of a deleted upload.
LEMMA PartsDeleted ==
    ASSUME MultipartInv, upload.status = "deleted", upload' = upload, parts' = [p \in PartNumbers |-> NoPart]
    PROVE  /\ parts' \in [PartNumbers -> PartVersion] /\ FinalMatchesParts' /\ StagedWithinLimit'
           /\ \A q \in Ids : req'[q] = req[q] => RequestSound(q)'
  <1>1. parts' \in [PartNumbers -> PartVersion]
    BY DEF NoPart, PartVersion, PartContents
  <1>2. FinalMatchesParts'
    BY DEF FinalMatchesParts
  <1>3. StagedWithinLimit'
    <2>1. Staged' = {}
      BY DEF Staged
    <2>2. Cardinality(Staged') = 0
      BY <2>1, FS_EmptySet
    <2> QED BY <2>2, MultipartAssumption DEF StagedWithinLimit
  <1>4. ASSUME NEW q \in Ids, req'[q] = req[q] PROVE RequestSound(q)'
    <2>1. ~UploadMatches(req[q].seen)'
      BY DEF UploadMatches, Live
    <2>2. SeenSound(req[q].seen)'
      BY <1>4 DEF MultipartInv, RequestSound, SeenSound, Live, Decided
    <2>3. PartSound(q)' /\ CompleteSound(q)' /\ DeleteSound(q)'
      BY <1>4, <2>1 DEF MultipartInv, RequestSound, PartSound, CompleteSound, DeleteSound, DecidedFor, Decided
    <2> QED BY <2>2, <2>3 DEF RequestSound
  <1> QED BY <1>1, <1>2, <1>3, <1>4

\* The parts of a deleted upload go; Abort is answered.
LEMMA DeletePartsKeeps == ASSUME MultipartInv, NEW r \in Ids, DeleteParts(r) PROVE MultipartInv'
  <1>1. /\ req[r].pc = "parts" /\ Goto(r, "done") /\ parts' = [p \in PartNumbers |-> NoPart]
        /\ aborted' = (aborted \/ Requests[r].op = "abort")
        /\ UNCHANGED <<upload, object, revision, ledger, published, lifecycle, cancels>>
    BY DEF DeleteParts, objects
  <1>2. /\ req' = [req EXCEPT ![r] = req'[r]] /\ req'[r] \in RequestState /\ req'[r].pc = "done" /\ req'[r].seen = None
    BY <1>1, GotoFacts, MultipartTypes DEF Ended, Steps
  <1>3. req' \in [Ids -> RequestState] /\ \A q \in Ids : q # r => req'[q] = req[q]
    BY <1>2, MultipartTypes
  <1>4. upload.status = "deleted"
    BY <1>1 DEF MultipartInv, RequestSound, DeleteSound
  <1>5. /\ parts' \in [PartNumbers -> PartVersion] /\ FinalMatchesParts' /\ StagedWithinLimit'
        /\ \A q \in Ids : req'[q] = req[q] => RequestSound(q)'
    BY <1>1, <1>4, PartsDeleted
  <1>6. RequestSound(r)' /\ ~Aborting(r)' /\ req'[r].pc \notin Publishing /\ req'[r].seen.status # "completing"
    BY <1>1, <1>2, EndedSound DEF Ended
  <1>7. MultipartTypeOK'
    <2>1. aborted' \in BOOLEAN
      BY <1>1
    <2> QED BY <1>1, <1>3, <1>5, <2>1 DEF MultipartInv, MultipartTypeOK, RequestState
  <1>8. UploadSound' /\ LifecycleSound' /\ PublishedSound'
    BY <1>1 DEF MultipartInv, UploadSound, LifecycleSound, SeenSound, Live, Decided, PublishedSound, Recorded
  <1>9. AbortSound'
    <2> SUFFICES ASSUME aborted' \/ \E q \in Ids : Aborting(q)' PROVE Unpublishable'
      BY DEF AbortSound
    <2>1. aborted \/ \E q \in Ids : Aborting(q)
      BY <1>1, <1>3, <1>6 DEF Aborting
    <2>2. Unpublishable
      BY <2>1 DEF MultipartInv, AbortSound
    <2> QED BY <1>1, <1>3, <1>6, <2>2 DEF Unpublishable
  <1> QED BY <1>3, <1>5, <1>6, <1>7, <1>8, <1>9 DEF MultipartInv

\* The parts stay behind; Abort is answered all the same.
LEMMA LeavePartsKeeps == ASSUME MultipartInv, NEW r \in Ids, LeaveParts(r) PROVE MultipartInv'
  <1>1. /\ req[r].pc = "parts" /\ Goto(r, "done") /\ cancels < MaxCancels /\ cancels' = cancels + 1
        /\ aborted' = (aborted \/ Requests[r].op = "abort")
        /\ UNCHANGED <<upload, parts, object, revision, ledger, published, lifecycle>>
    BY DEF LeaveParts, objects
  <1>2. object' \in PartLists /\ revision' \in Nat
    BY <1>1 DEF MultipartInv, MultipartTypeOK
  <1>3. cancels' \in 0 .. MaxCancels
    BY <1>1, MultipartAssumption DEF MultipartInv, MultipartTypeOK
  <1>4. aborted' \in BOOLEAN /\ (aborted' => aborted \/ Aborting(r))
    BY <1>1 DEF Aborting
  <1> QED BY <1>1, <1>2, <1>3, <1>4, EndsKeeps DEF Ended

\* The cleanup of a published upload reads the record again.
LEMMA RetryCleanupKeeps == ASSUME MultipartInv, NEW r \in Ids, RetryCleanup(r) PROVE MultipartInv'
  <1>1. /\ req[r].pc = "retry"
        /\ UNCHANGED <<upload, parts, object, revision, ledger, published, lifecycle, aborted, cancels>>
    BY DEF RetryCleanup, objects
  <1>2. (upload.status = "completing" /\ GotoSeen(r, "fence")) \/ Goto(r, "done")
    BY DEF RetryCleanup
  <1>3. object' \in PartLists /\ revision' \in Nat /\ aborted' \in BOOLEAN /\ cancels' \in 0 .. MaxCancels
    BY <1>1 DEF MultipartInv, MultipartTypeOK
  <1>4. CASE Goto(r, "done")
    BY <1>1, <1>3, <1>4, EndsKeeps DEF Ended
  <1>5. CASE upload.status = "completing" /\ GotoSeen(r, "fence")
    <2>1. /\ req' = [req EXCEPT ![r] = req'[r]] /\ req'[r] \in RequestState
          /\ req'[r].pc = "fence" /\ req'[r].seen = upload
      BY <1>5, GotoSeenFacts, MultipartTypes DEF Ended, Steps
    <2>2. SeenSound(req[r].seen)' /\ (Unpublishable => req'[r].seen.status # "completing")
      BY <1>1, <2>1, SeenNow
    <2>3. DecidedFor(r)'
      BY <1>1 DEF MultipartInv, RequestSound, CompleteSound, DecidedFor, Decided
    <2>4. RequestSound(r)' /\ ~Aborting(r)' /\ req'[r].pc \notin Publishing
      BY <2>1, <2>2, <2>3 DEF RequestSound, PartSound, CompleteSound, DeleteSound, Publishing, Aborting
    <2> QED BY <1>1, <1>3, <2>1, <2>2, <2>4, MovesOn
  <1> QED BY <1>2, <1>4, <1>5

\* PutObject writes the object.
LEMMA PutObjectKeeps == ASSUME MultipartInv, NEW r \in Ids, PutObject(r) PROVE MultipartInv'
  <1>1. /\ object' = Requests[r].list /\ revision' = revision + 1 /\ Goto(r, "done")
        /\ UNCHANGED <<upload, parts, ledger, lifecycle, published, aborted, cancels>>
    BY DEF PutObject
  <1>2. object' \in PartLists
    BY <1>1 DEF PartLists
  <1>3. revision' \in Nat /\ aborted' \in BOOLEAN /\ cancels' \in 0 .. MaxCancels
    BY <1>1 DEF MultipartInv, MultipartTypeOK
  <1> QED BY <1>1, <1>2, <1>3, EndsKeeps DEF Ended

\* A request is cut off.
LEMMA CutOffKeeps == ASSUME MultipartInv, NEW r \in Ids, CutOff(r) PROVE MultipartInv'
  <1>1. /\ Goto(r, "failed") /\ cancels < MaxCancels /\ cancels' = cancels + 1
        /\ UNCHANGED <<upload, parts, object, revision, ledger, published, lifecycle, aborted>>
    BY DEF CutOff, objects
  <1>2. object' \in PartLists /\ revision' \in Nat /\ aborted' \in BOOLEAN
    BY <1>1 DEF MultipartInv, MultipartTypeOK
  <1>3. cancels' \in 0 .. MaxCancels
    BY <1>1, MultipartAssumption DEF MultipartInv, MultipartTypeOK
  <1> QED BY <1>1, <1>2, <1>3, EndsKeeps DEF Ended

-----------------------------------------------------------------------------
(* The lifecycle pass *)

\* The pass lists and reads.
LEMMA LifecycleReads ==
    ASSUME MultipartInv, UNCHANGED <<upload, parts, object, revision, ledger, published, req, aborted, cancels>>,
           lifecycle' \in [pc : {"idle", "listed", "fence"}, seen : {None, upload}]
    PROVE  MultipartInv'
  <1>1. MultipartTypeOK'
    <2>1. None \in UploadRecord /\ upload \in UploadRecord
      BY MultipartTypes DEF None, UploadRecord, PartLists
    <2>2. lifecycle' \in [pc : {"idle", "listed", "fence", "parts"}, seen : UploadRecord]
      BY <2>1
    <2> QED BY <2>2 DEF MultipartInv, MultipartTypeOK
  <1>2. LifecycleSound'
    <2>1. lifecycle'.pc # "parts" /\ (lifecycle'.seen = None \/ lifecycle'.seen = upload)
      OBVIOUS
    <2>2. None.gen = 0 /\ None.status = "none"
      BY DEF None
    <2>3. upload.gen \in Nat /\ (Live(upload) => upload.gen > 0)
      BY MultipartTypes DEF MultipartInv, UploadSound
    <2>4. SeenSound(lifecycle.seen)'
      BY <2>1, <2>2, <2>3 DEF SeenSound, Live, Decided
    <2> QED BY <2>1, <2>4 DEF LifecycleSound
  <1>3. \A q \in Ids : RequestSound(q)'
    BY OthersSound DEF MultipartInv
  <1>4. UploadSound' /\ FinalMatchesParts' /\ StagedWithinLimit' /\ PublishedSound'
    BY DEF MultipartInv, UploadSound, Live, FinalMatchesParts, StagedWithinLimit, Staged, PublishedSound, Decided, Recorded
  <1>5. AbortSound'
    BY DEF MultipartInv, AbortSound, Unpublishable, Aborting
  <1> QED BY <1>1, <1>2, <1>3, <1>4, <1>5 DEF MultipartInv

\* The pass lists an open upload.
LEMMA LifecycleListKeeps == ASSUME MultipartInv, LifecycleList PROVE MultipartInv'
  BY LifecycleReads DEF LifecycleList, objects

\* The pass reads the record again.
LEMMA LifecycleReadKeeps == ASSUME MultipartInv, LifecycleRead PROVE MultipartInv'
  BY LifecycleReads DEF LifecycleRead, objects

\* The pass deletes the record it read: an open one, or one that is completing.
LEMMA LifecycleFenceKeeps == ASSUME MultipartInv, LifecycleFence PROVE MultipartInv'
  <1>1. UNCHANGED <<parts, object, revision, ledger, published, req, aborted, cancels>>
    BY DEF LifecycleFence, objects
  <1>2. \/ lifecycle' = [pc |-> "idle", seen |-> None] /\ UNCHANGED upload
        \/ /\ UploadMatches(lifecycle.seen) /\ upload' = [upload EXCEPT !.status = "deleted"]
           /\ lifecycle' = [pc |-> "parts", seen |-> None]
    BY DEF LifecycleFence
  <1>3. CASE lifecycle' = [pc |-> "idle", seen |-> None] /\ UNCHANGED upload
    BY <1>1, <1>3, LifecycleReads
  <1>4. CASE /\ UploadMatches(lifecycle.seen) /\ upload' = [upload EXCEPT !.status = "deleted"]
             /\ lifecycle' = [pc |-> "parts", seen |-> None]
    <2>1. Live(upload)
      BY <1>4 DEF UploadMatches
    <2>2. /\ upload' \in UploadRecord /\ upload'.status = "deleted" /\ upload'.gen = upload.gen /\ upload'.list = upload.list
          /\ UploadSound' /\ FinalMatchesParts' /\ StagedWithinLimit' /\ ~aborted /\ \A q \in Ids : ~Aborting(q)
          /\ \A q \in Ids : req'[q] = req[q] => RequestSound(q)'
      BY <1>1, <1>4, <2>1, RecordDeleted
    <2>3. None \in UploadRecord /\ None.gen = 0 /\ None.status = "none"
      BY DEF None, UploadRecord, PartLists
    <2>4. MultipartTypeOK'
      BY <1>1, <1>4, <2>2, <2>3 DEF MultipartInv, MultipartTypeOK
    <2>5. LifecycleSound'
      <3>1. lifecycle'.seen = None /\ upload'.gen \in Nat
        BY <1>4, <2>2, MultipartTypes
      <3> QED BY <2>2, <2>3, <3>1 DEF LifecycleSound, SeenSound, Live
    <2>6. \A q \in Ids : RequestSound(q)'
      BY <1>1, <2>2
    <2>7. PublishedSound'
      BY <1>1, <2>2 DEF MultipartInv, PublishedSound, Decided, Recorded
    <2>8. AbortSound'
      BY <1>1, <2>2 DEF AbortSound, Aborting
    <2> QED BY <2>2, <2>4, <2>5, <2>6, <2>7, <2>8 DEF MultipartInv
  <1> QED BY <1>2, <1>3, <1>4

\* The pass deletes the parts.
LEMMA LifecyclePartsKeeps == ASSUME MultipartInv, LifecycleParts PROVE MultipartInv'
  <1>1. /\ lifecycle.pc = "parts" /\ parts' = [p \in PartNumbers |-> NoPart] /\ lifecycle' = [pc |-> "idle", seen |-> None]
        /\ UNCHANGED <<upload, object, revision, ledger, published, req, aborted, cancels>>
    BY DEF LifecycleParts, objects
  <1>2. upload.status = "deleted"
    BY <1>1 DEF MultipartInv, LifecycleSound
  <1>3. /\ parts' \in [PartNumbers -> PartVersion] /\ FinalMatchesParts' /\ StagedWithinLimit'
        /\ \A q \in Ids : req'[q] = req[q] => RequestSound(q)'
    BY <1>1, <1>2, PartsDeleted
  <1>4. None \in UploadRecord /\ None.gen = 0 /\ None.status = "none"
    BY DEF None, UploadRecord, PartLists
  <1>5. MultipartTypeOK'
    BY <1>1, <1>3, <1>4 DEF MultipartInv, MultipartTypeOK
  <1>6. LifecycleSound'
    <2>1. lifecycle'.seen = None /\ lifecycle'.pc = "idle" /\ upload'.gen \in Nat /\ upload' = upload
      BY <1>1, MultipartTypes
    <2> QED BY <1>2, <1>4, <2>1 DEF LifecycleSound, SeenSound, Live
  <1>7. UploadSound' /\ PublishedSound'
    BY <1>1 DEF MultipartInv, UploadSound, Live, Decided, PublishedSound, Recorded
  <1>8. AbortSound'
    BY <1>1 DEF MultipartInv, AbortSound, Unpublishable, Aborting
  <1> QED BY <1>1, <1>3, <1>5, <1>6, <1>7, <1>8 DEF MultipartInv

-----------------------------------------------------------------------------
\* Before anything is sent.
LEMMA InitMultipartInv == MultipartInit => MultipartInv
  <1> SUFFICES ASSUME MultipartInit PROVE MultipartInv
    OBVIOUS
  <1>0. None \in UploadRecord /\ None.gen = 0 /\ None.status = "none" /\ <<>> \in PartLists
    BY DEF None, UploadRecord, PartLists
  <1>1. /\ upload = None /\ parts = [p \in PartNumbers |-> NoPart] /\ object = <<>> /\ revision = 0 /\ ledger = {}
        /\ lifecycle = [pc |-> "idle", seen |-> None] /\ published = 0 /\ aborted = FALSE /\ cancels = 0
    BY DEF MultipartInit
  <1>2. PICK sent \in Scenarios : req = [r \in Ids |-> Idle(IF r \in sent THEN "new" ELSE "failed")]
    BY DEF MultipartInit
  <1>3. \A r \in Ids : req[r] \in RequestState /\ req[r].pc \in {"new", "failed"} /\ req[r].seen = None
    BY <1>2, IdleFacts DEF Steps
  <1>4. MultipartTypeOK
    <2>1. req \in [Ids -> RequestState]
      BY <1>2, <1>3
    <2>2. parts \in [PartNumbers -> PartVersion]
      BY <1>1 DEF NoPart, PartVersion, PartContents
    <2>3. cancels \in 0 .. MaxCancels /\ published \in Nat /\ revision \in Nat
      BY <1>1, MultipartAssumption
    <2>4. lifecycle \in [pc : {"idle", "listed", "fence", "parts"}, seen : UploadRecord] /\ upload \in UploadRecord
      BY <1>0, <1>1
    <2>5. object \in PartLists /\ ledger \in SUBSET (PartLists \X Nat) /\ aborted \in BOOLEAN
      BY <1>0, <1>1
    <2> QED BY <2>1, <2>2, <2>3, <2>4, <2>5 DEF MultipartTypeOK, RequestState
  <1>5. SeenSound(None)
    BY <1>0, <1>1 DEF SeenSound
  <1>6. UploadSound /\ LifecycleSound
    BY <1>0, <1>1, <1>5 DEF UploadSound, LifecycleSound, Live
  <1>7. \A r \in Ids : RequestSound(r)
    BY <1>3, <1>5 DEF RequestSound, PartSound, CompleteSound, DeleteSound, Publishing
  <1>8. FinalMatchesParts /\ PublishedSound /\ AbortSound
    BY <1>0, <1>1, <1>3 DEF FinalMatchesParts, PublishedSound, AbortSound, Aborting
  <1>9. StagedWithinLimit
    <2>1. Staged = {}
      BY <1>1 DEF Staged
    <2>2. Cardinality(Staged) = 0
      BY <2>1, FS_EmptySet
    <2> QED BY <2>2, MultipartAssumption DEF StagedWithinLimit
  <1> QED BY <1>4, <1>6, <1>7, <1>8, <1>9 DEF MultipartInv

\* Every step of a request preserves the invariant.
LEMMA HandlerKeeps == ASSUME MultipartInv, NEW r \in Ids, Handler(r) PROVE MultipartInv'
  BY ReadForPartKeeps, CheckStagedKeeps, PutPartKeeps, ReadForCompleteKeeps, SelectPartsKeeps, MarkCompletingKeeps,
     RereadUploadKeeps, CheckPublishedKeeps, ReadBaseKeeps, PublishKeeps, ReadForAbortKeeps, FenceUploadKeeps,
     DeletePartsKeeps, LeavePartsKeeps, RetryCleanupKeeps, PutObjectKeeps, CutOffKeeps DEF Handler

\* A stuttering step preserves the invariant.
LEMMA MultipartStutter == ASSUME MultipartInv, UNCHANGED multipartVars PROVE MultipartInv'
  <1>1. UNCHANGED <<upload, parts, object, revision, ledger, req, lifecycle, published, aborted, cancels>>
    BY DEF multipartVars
  <1>2. MultipartTypeOK' /\ UploadSound'
    BY <1>1 DEF MultipartInv, MultipartTypeOK, UploadSound, Live
  <1>3. LifecycleSound'
    BY <1>1 DEF MultipartInv, LifecycleSound, SeenSound, Live, Decided
  <1>4. \A q \in Ids : RequestSound(q)'
    BY <1>1, OthersSound DEF MultipartInv
  <1>5. FinalMatchesParts' /\ StagedWithinLimit' /\ PublishedSound'
    BY <1>1 DEF MultipartInv, FinalMatchesParts, StagedWithinLimit, Staged, PublishedSound, Decided, Recorded
  <1>6. AbortSound'
    BY <1>1 DEF MultipartInv, AbortSound, Unpublishable, Aborting
  <1> QED BY <1>2, <1>3, <1>4, <1>5, <1>6 DEF MultipartInv

\* The inductive invariant of the multipart handlers.
THEOREM MultipartInvariant == MultipartSpec => []MultipartInv
  <1>1. ASSUME MultipartInv, [MultipartNext]_multipartVars PROVE MultipartInv'
    BY <1>1, CreateUploadKeeps, HandlerKeeps, LifecycleListKeeps, LifecycleReadKeeps, LifecycleFenceKeeps,
       LifecyclePartsKeeps, MultipartStutter DEF MultipartNext
  <1> QED BY <1>1, InitMultipartInv, PTL DEF MultipartSpec

\* The handlers' state has its type.
THEOREM MultipartTypeCorrect == MultipartSpec => []MultipartTypeOK
  <1>1. MultipartInv => MultipartTypeOK
    BY DEF MultipartInv
  <1> QED BY <1>1, MultipartInvariant, PTL

\* However UploadPart, Complete, Abort, PutObject and the lifecycle pass
\* interleave and wherever they are cut off: a completing upload's parts are
\* those its list names, the staging limit holds, the object is written by at
\* most one Complete, and by none after an answered Abort.
THEOREM MultipartIsSafe == MultipartSpec => []MultipartSafe
  <1>1. MultipartInv => MultipartSafe
    <2> SUFFICES ASSUME MultipartInv PROVE MultipartSafe
      OBVIOUS
    <2>1. AbortIsFinal
      BY DEF MultipartInv, AbortSound, Unpublishable, AbortIsFinal
    <2>2. PublishedOnce
      BY DEF MultipartInv, PublishedSound, PublishedOnce
    <2> QED BY <2>1, <2>2 DEF MultipartInv, MultipartSafe
  <1> QED BY <1>1, MultipartInvariant, PTL
=============================================================================
