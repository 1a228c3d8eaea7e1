------------------------ MODULE AssetInventory_proofs ------------------------
(***************************************************************************)
(* That a thumbprint names no game the rows have never got, for any        *)
(* games, ids, workers, user calls and requests that fail or are given up. *)
(***************************************************************************)
EXTENDS AssetInventory, TLAPS

USE GamesAssumption, StartAssumption, NoneAssumption, BoundsAssumption
    DEF GamesAssumption, StartAssumption, NoneAssumption, BoundsAssumption

\* The games that are in the rows, or known not to be.
Kept == rows \cup lost

\* Games a request is still to write.
OnTheWay(w) == IF request[w].step \in {"clear", "forget", "add"} THEN request[w].batch ELSE {}

\* Between its requests an upload has all in the rows but what it has left.
Between ==
  upload # NoUpload /\ upload.at = None =>
    /\ upload.whole \subseteq upload.left \cup Kept
    /\ upload.mode = "full" => upload.whole \subseteq upload.left

\* During a request also what that is still to write, and once the thumbprint
\* has been recorded nothing it names is missing.
During(w) ==
  LET r == request[w]
  IN upload.at = w =>
       /\ r # NoRequest /\ upload # NoUpload
       /\ r.whole = upload.whole /\ r.gone = upload.gone /\ r.mode = upload.mode
       /\ r.last <=> upload.left = {}
       /\ r.mode = "full" => upload.left = {}
       /\ upload.whole \subseteq upload.left \cup OnTheWay(w) \cup Kept
       /\ r.step = "clear" => upload.whole \subseteq r.batch
       /\ r.step = "answer" /\ upload.left = {} /\ thumb # None => thumb \subseteq Kept

\* What a delta drops is not of the whole.
GoneIsGone == upload.gone \cap upload.whole = {}

Meaning == Between /\ (\A w \in Workers : During(w)) /\ GoneIsGone /\ OnlyLostIsMissing

IInv == TypeOK /\ Meaning

-----------------------------------------------------------------------------
(* The pieces.                                                             *)

\* A mirror leaves the thumbprint or wipes it.
LEMMA MirrorWipes ==
  ASSUME NEW w PROVE Mirrored(w) \in {None, thumb}
BY DEF Mirrored

\* A deletion leaves all but the named games and their namesakes.
LEMMA DeletedTakes ==
  ASSUME TypeOK, NEW games \in SUBSET Games
  PROVE  /\ Deleted(games) \subseteq rows
         /\ rows \ Deleted(games) \subseteq games \cup Namesakes(games)
BY DEF TypeOK, Deleted, Namesakes

\* The Drone waits for no worker that is none.
LEMMA WaitingShape ==
  ASSUME IInv, upload.at # None
  PROVE  upload \in Upload /\ upload.at \in Workers /\ request[upload.at] \in Request
<1>1. upload \in Upload
  BY DEF IInv, TypeOK, NoUpload
<1>2. upload.at \in Workers
  BY <1>1 DEF Upload
<1>3. request[upload.at] # NoRequest
  BY <1>2 DEF IInv, Meaning, During
<1> QED
  BY <1>1, <1>2, <1>3 DEF IInv, TypeOK

\* Nothing of this changes while the upload and the request it waits for stay
\* as they are, no game gets out of sight, and a new thumbprint is covered.
LEMMA OthersKeep ==
  ASSUME IInv, UNCHANGED upload,
         \A w \in Workers : upload.at = w => request'[w] = request[w],
         Kept \subseteq Kept',
         thumb' = None \/ thumb' = thumb \/ thumb' \subseteq Kept'
  PROVE  Meaning'
<1>1. Between'
  BY DEF IInv, Meaning, Between
<1>2. ASSUME NEW w \in Workers PROVE During(w)'
  <2>1. CASE upload.at = w
    <3>1. request'[w] = request[w] /\ During(w) /\ OnTheWay(w)' = OnTheWay(w)
      BY <2>1 DEF IInv, Meaning, OnTheWay
    <3> QED
      BY <2>1, <3>1 DEF During
  <2>2. CASE upload.at # w
    BY <2>2 DEF During
  <2> QED
    BY <2>1, <2>2
<1>3. GoneIsGone'
  BY DEF IInv, Meaning, GoneIsGone
<1>4. OnlyLostIsMissing'
  BY DEF IInv, Meaning, OnlyLostIsMissing, Kept
<1> QED
  BY <1>1, <1>2, <1>3, <1>4 DEF Meaning

\* A step of the request the Drone waits for.
LEMMA OwnStepKeeps ==
  ASSUME IInv, NEW w \in Workers, upload.at = w,
         upload' \in Upload,
         upload'.at = w /\ upload'.whole = upload.whole /\ upload'.left = upload.left,
         upload'.gone = upload.gone /\ upload'.mode = upload.mode,
         request' \in [Workers -> Request \cup {NoRequest}],
         request'[w] # NoRequest,
         request'[w].whole = request[w].whole /\ request'[w].gone = request[w].gone,
         request'[w].mode = request[w].mode /\ request'[w].last = request[w].last,
         request'[w].step # "clear",
         upload.whole \subseteq upload.left \cup OnTheWay(w)' \cup Kept',
         request'[w].step = "answer" /\ upload.left = {} /\ thumb' # None => thumb' \subseteq Kept',
         thumb' # None => thumb' \subseteq Kept' \cup upload'.took
  PROVE  Meaning'
<1>1. Between'
  BY DEF Between
<1>2. ASSUME NEW v \in Workers PROVE During(v)'
  <2>1. CASE v = w
    <3>1. During(w)
      BY DEF IInv, Meaning
    <3>2. upload' # NoUpload
      BY DEF Upload, NoUpload, Modes
    <3> QED
      BY <2>1, <3>1, <3>2 DEF During
  <2>2. CASE v # w
    BY <2>2 DEF During
  <2> QED
    BY <2>1, <2>2
<1>3. GoneIsGone'
  BY DEF IInv, Meaning, GoneIsGone
<1>4. OnlyLostIsMissing'
  BY DEF OnlyLostIsMissing, Kept
<1> QED
  BY <1>1, <1>2, <1>3, <1>4 DEF Meaning

\* An upload that is over leaves nothing but the thumbprint to account for.
LEMMA OverKeeps ==
  ASSUME IInv, upload' = NoUpload, thumb' = None \/ thumb' \subseteq Kept'
  PROVE  Meaning'
<1>1. Between' /\ GoneIsGone'
  BY DEF Between, GoneIsGone, NoUpload
<1>2. ASSUME NEW w \in Workers PROVE During(w)'
  BY DEF During, NoUpload
<1>3. OnlyLostIsMissing'
  BY DEF OnlyLostIsMissing, Kept
<1> QED
  BY <1>1, <1>2, <1>3 DEF Meaning

\* What is covered before a request of the Drone is given up still is, as
\* history puts the blame on it.
LEMMA GivenUpKeeps ==
  ASSUME IInv, upload' = NoUpload, UNCHANGED rows, lost' = lost \cup (upload.took \ rows),
         thumb' \in {None, thumb}
  PROVE  Meaning'
<1>1. thumb' = None \/ thumb' \subseteq Kept'
  BY DEF IInv, Meaning, OnlyLostIsMissing, Kept
<1> QED
  BY <1>1, OverKeeps

-----------------------------------------------------------------------------
(* The Drone.                                                              *)

\* Installing and removing games changes nothing of this.
LEMMA DiskKeeps ==
  ASSUME IInv, NEW g \in Games, Install(g) \/ Remove(g)
  PROVE  IInv'
<1>1. TypeOK'
  <2>1. disk' \subseteq Games /\ changes' \in 0..MaxChanges
    BY DEF IInv, TypeOK, Install, Remove, Change
  <2>2. UNCHANGED <<acked, upload, purging, rows, thumb, request, remembers, lost, list, reading, calls, faults>>
    BY DEF Install, Remove, Change
  <2> QED
    BY <2>1, <2>2 DEF IInv, TypeOK
<1>2. UNCHANGED <<rows, lost, thumb, upload, request>>
  BY DEF Install, Remove
<1>3. Kept \subseteq Kept'
  BY <1>2 DEF Kept
<1> QED
  BY <1>1, <1>2, <1>3, OthersKeep DEF IInv

\* A new upload has everything left, or a delta everything but what an echo
\* that is covered names.
LEMMA HeartbeatKeeps ==
  ASSUME IInv, NEW w \in Workers, Heartbeat(w)
  PROVE  IInv'
<1> DEFINE echo == Mirrored(w)
<1>1. echo \in {None, thumb} /\ thumb' = echo
  BY MirrorWipes DEF Heartbeat, Seen
<1>2. UNCHANGED <<disk, acked, purging, rows, request, remembers, lost, list, reading, bounds>>
  BY DEF Heartbeat
<1>3. Kept' = Kept
  BY <1>2 DEF Kept
<1>4. CASE UNCHANGED upload
  <2>1. TypeOK'
    BY <1>1, <1>2, <1>4 DEF IInv, TypeOK, bounds
  <2> QED
    BY <2>1, <1>1, <1>2, <1>3, <1>4, OthersKeep DEF IInv
<1>5. ASSUME upload = NoUpload, NEW mode \in PossibleModes(echo), upload' = NewUpload(mode, echo)
      PROVE  IInv'
  <2>1. mode \in Modes /\ (mode = "delta" => echo # None)
    BY <1>5 DEF PossibleModes, Modes
  <2>2. echo # None => echo \subseteq Kept /\ echo \subseteq Games
    BY <1>1, <1>5 DEF IInv, Meaning, OnlyLostIsMissing, Kept, NoUpload, TypeOK
  <2>3. /\ upload'.mode = mode /\ upload'.at = None /\ upload'.whole = disk
        /\ upload'.left = (IF mode = "delta" THEN disk \ echo ELSE disk)
        /\ upload'.gone = (IF mode = "delta" THEN echo \ disk ELSE {})
        /\ upload'.took = {} /\ upload'.purge = purging
    BY <1>5 DEF NewUpload, NoUpload
  <2>4. upload' \in Upload
    BY <1>5, <2>1, <2>2 DEF NewUpload, NoUpload, Upload, IInv, TypeOK
  <2>5. TypeOK'
    BY <1>1, <1>2, <2>4 DEF IInv, TypeOK, bounds
  <2>6. Between'
    BY <1>3, <2>1, <2>2, <2>3 DEF Between
  <2>7. GoneIsGone'
    BY <2>3 DEF GoneIsGone
  <2>8. ASSUME NEW v \in Workers PROVE During(v)'
    BY <2>3 DEF During
  <2>9. OnlyLostIsMissing'
    BY <1>1, <1>2, <2>2 DEF OnlyLostIsMissing, Kept
  <2> QED
    BY <2>5, <2>6, <2>7, <2>8, <2>9 DEF IInv, Meaning
<1>6. UNCHANGED upload \/ (upload = NoUpload /\ \E mode \in PossibleModes(echo) : upload' = NewUpload(mode, echo))
  BY DEF Heartbeat
<1> QED
  BY <1>4, <1>5, <1>6

\* The Drone gives up.
LEMMA GiveUpKeeps ==
  ASSUME IInv, GiveUp
  PROVE  IInv'
<1>1. TypeOK'
  <2>1. upload \in Upload
    BY WaitingShape DEF GiveUp
  <2>2. lost' \subseteq Games
    BY <2>1 DEF GiveUp, IInv, TypeOK, Upload
  <2>3. upload' = NoUpload /\ acked' = None /\ faults' \in 0..MaxFaults
    BY DEF GiveUp, Fault, IInv, TypeOK
  <2>4. UNCHANGED <<disk, purging, rows, thumb, request, remembers, list, reading, changes, calls>>
    BY DEF GiveUp, Fault
  <2> QED
    BY <2>2, <2>3, <2>4 DEF IInv, TypeOK
<1> QED
  BY <1>1, GivenUpKeeps DEF GiveUp, IInv

-----------------------------------------------------------------------------
(* The requests.                                                           *)

\* A request carries a batch of what is left, and says so if it is all.
LEMMA ReceiveKeeps ==
  ASSUME IInv, NEW w \in Workers, Receive(w)
  PROVE  IInv'
<1>1. PICK b \in Batches :
        /\ upload' = [upload EXCEPT !.at = w, !.left = @ \ b]
        /\ request' = [request EXCEPT ![w] =
             [step |-> FirstStep[upload.mode], mode |-> upload.mode, last |-> upload.left = b,
              whole |-> upload.whole, batch |-> b, gone |-> upload.gone]]
  BY Zenon DEF Receive
<1>2. upload # NoUpload /\ upload.at = None /\ upload \in Upload
  BY DEF Receive, IInv, TypeOK
<1>3. b \subseteq upload.left /\ (upload.mode = "full" => b = upload.left)
  BY DEF Batches
<1>4. /\ upload'.at = w /\ upload'.left = upload.left \ b /\ upload'.whole = upload.whole
      /\ upload'.gone = upload.gone /\ upload'.mode = upload.mode /\ upload'.took = upload.took
      /\ upload'.purge = upload.purge
  BY <1>1, <1>2 DEF Upload
<1>5. upload' \in Upload
  BY <1>1, <1>2, <1>3 DEF Upload
<1>6. /\ request'[w].step = FirstStep[upload.mode] /\ request'[w].mode = upload.mode
      /\ request'[w].last = (upload.left = b) /\ request'[w].whole = upload.whole
      /\ request'[w].batch = b /\ request'[w].gone = upload.gone
  BY <1>1 DEF IInv, TypeOK
<1>7. /\ FirstStep[upload.mode] \in {"clear", "add", "forget"}
      /\ FirstStep[upload.mode] = "clear" => upload.mode = "full"
  BY <1>2 DEF FirstStep, Upload, Modes
<1>8. thumb' \in {None, thumb}
  BY MirrorWipes DEF Receive, Seen
<1>9. UNCHANGED <<disk, acked, purging, rows, remembers, lost, list, reading, bounds>>
  BY DEF Receive
<1>10. TypeOK'
  <2>1. [step |-> FirstStep[upload.mode], mode |-> upload.mode, last |-> upload.left = b,
         whole |-> upload.whole, batch |-> b, gone |-> upload.gone] \in Request
    BY <1>2, <1>3, <1>7 DEF Request, Steps, Upload
  <2>2. request' \in [Workers -> Request \cup {NoRequest}]
    BY <1>1, <2>1 DEF IInv, TypeOK
  <2>3. thumb' \in {None} \cup SUBSET Games
    BY <1>8 DEF IInv, TypeOK
  <2>4. UNCHANGED <<changes, calls, faults>>
    BY <1>9 DEF bounds
  <2> QED
    BY <1>5, <1>9, <2>2, <2>3, <2>4 DEF IInv, TypeOK
<1>11. Between'
  BY <1>4 DEF Between
<1>12. ASSUME NEW v \in Workers PROVE During(v)'
  <2>1. CASE v = w
    <3>1. upload' # NoUpload /\ request'[w] # NoRequest
      BY <1>2, <1>4, <1>6 DEF Upload, NoUpload, NoRequest, Modes
    <3>2. OnTheWay(w)' = b
      BY <1>6, <1>7 DEF OnTheWay
    <3>3. upload.whole \subseteq upload'.left \cup b \cup Kept'
      BY <1>2, <1>4, <1>9 DEF IInv, Meaning, Between, Kept
    <3>4. upload.mode = "full" => upload'.left = {} /\ upload.whole \subseteq b
      BY <1>2, <1>3, <1>4 DEF IInv, Meaning, Between
    <3>5. request'[w].last <=> upload'.left = {}
      BY <1>3, <1>4, <1>6
    <3> QED
      BY <2>1, <1>4, <1>6, <1>7, <3>1, <3>2, <3>3, <3>4, <3>5 DEF During
  <2>2. CASE v # w
    BY <1>4, <2>2 DEF During
  <2> QED
    BY <2>1, <2>2
<1>13. GoneIsGone' /\ OnlyLostIsMissing'
  BY <1>4, <1>8, <1>9 DEF IInv, Meaning, GoneIsGone, OnlyLostIsMissing
<1> QED
  BY <1>10, <1>11, <1>12, <1>13 DEF IInv, Meaning

\* A request that goes on to a step is a request.
LEMMA GotoType ==
  ASSUME TypeOK, NEW w \in Workers, request[w] # NoRequest, NEW step \in Steps, Goto(w, step)
  PROVE  /\ request' \in [Workers -> Request \cup {NoRequest}]
         /\ request'[w] # NoRequest /\ request'[w].step = step
         /\ request'[w].mode = request[w].mode /\ request'[w].last = request[w].last
         /\ request'[w].whole = request[w].whole /\ request'[w].gone = request[w].gone
         /\ request'[w].batch = request[w].batch
         /\ \A v \in Workers : v # w => request'[v] = request[v]
<1>1. request[w] \in Request
  BY DEF TypeOK
<1>2. request'[w] = [request[w] EXCEPT !.step = step]
  BY DEF Goto, TypeOK
<1>3. request'[w] \in Request /\ request'[w].step = step
  BY <1>1, <1>2 DEF Request
<1>4. request'[w] # NoRequest
  BY <1>3 DEF NoRequest, Steps
<1> QED
  BY <1>1, <1>2, <1>3, <1>4 DEF Goto, TypeOK, Request

\* The types of a statement that takes games out of the rows.
LEMMA TakenOutType ==
  ASSUME IInv, NEW w \in Workers, NEW named \in SUBSET Games, TakenOut(w, named),
         rows' \subseteq rows
  PROVE  /\ lost' \in SUBSET Games /\ upload' \in Upload \cup {NoUpload}
         /\ upload.at = w => /\ upload' \in Upload /\ upload'.at = w
                            /\ upload'.whole = upload.whole /\ upload'.left = upload.left
                            /\ upload'.gone = upload.gone /\ upload'.mode = upload.mode
                            /\ upload'.took = upload.took \cup ((rows \ rows') \cap named)
<1>1. CASE upload.at = w
  <2>1. upload \in Upload
    BY <1>1, WaitingShape
  <2>2. /\ upload' = [upload EXCEPT !.took = @ \cup ((rows \ rows') \cap named)]
        /\ lost' = lost \cup ((rows \ rows') \cap Namesakes(named))
    BY <1>1 DEF TakenOut, IsAwaited
  <2>3. upload' \in Upload
    BY <2>1, <2>2 DEF Upload
  <2>4. /\ upload'.at = w
        /\ upload'.whole = upload.whole /\ upload'.left = upload.left
        /\ upload'.gone = upload.gone /\ upload'.mode = upload.mode
        /\ upload'.took = upload.took \cup ((rows \ rows') \cap named)
    BY <1>1, <2>1, <2>2 DEF Upload
  <2> QED
    BY <2>2, <2>3, <2>4 DEF IInv, TypeOK
<1>2. CASE upload.at # w
  BY <1>2 DEF TakenOut, IsAwaited, IInv, TypeOK
<1> QED
  BY <1>1, <1>2

\* What a statement takes out that nobody waits for is lost.
LEMMA StrayTakes ==
  ASSUME NEW w, NEW named, TakenOut(w, named), upload.at # w
  PROVE  UNCHANGED upload /\ Kept \subseteq Kept'
BY DEF TakenOut, IsAwaited, Kept

\* What a statement takes out that the Drone waits for was named, or is lost.
LEMMA OwnTakes ==
  ASSUME NEW w, NEW named, TakenOut(w, named), upload.at = w,
         rows \ rows' \subseteq named \cup Namesakes(named)
  PROVE  Kept \subseteq Kept' \cup ((rows \ rows') \cap named)
BY DEF TakenOut, IsAwaited, Kept

\* A statement that takes games out: the Drone's games are still on the way,
\* or were not among the named ones.
LEMMA TakingKeeps ==
  ASSUME IInv, NEW w \in Workers, request[w] # NoRequest, NEW named \in SUBSET Games,
         NEW step \in {"add", "record"}, Goto(w, step), TakenOut(w, named),
         rows' \subseteq rows, rows \ rows' \subseteq named \cup Namesakes(named),
         upload.at = w => upload.whole \subseteq upload.left \cup OnTheWay(w)' \cup (Kept \ named),
         UNCHANGED thumb
  PROVE  Meaning'
<1>1. step \in Steps
  BY DEF Steps
<1>2. CASE upload.at = w
  <2>1. Kept \subseteq Kept' \cup ((rows \ rows') \cap named)
    BY <1>2, OwnTakes
  <2>2. thumb' # None => thumb' \subseteq Kept' \cup upload'.took
    BY <1>2, <2>1, TakenOutType DEF IInv, Meaning, OnlyLostIsMissing, Kept
  <2>3. upload.whole \subseteq upload.left \cup OnTheWay(w)' \cup Kept'
    BY <1>2, <2>1
  <2>4. step # "clear" /\ step # "answer"
    OBVIOUS
  <2> HIDE DEF Goto, TakenOut
  <2> QED
    BY <1>1, <1>2, <2>2, <2>3, <2>4, GotoType, TakenOutType, OwnStepKeeps DEF IInv
<1>3. CASE upload.at # w
  BY <1>1, <1>3, StrayTakes, GotoType, OthersKeep DEF IInv
<1> QED
  BY <1>2, <1>3

\* replace_all clears the rows, and has all games of the Drone on the way.
LEMMA ClearKeeps ==
  ASSUME IInv, NEW w \in Workers, Clear(w)
  PROVE  IInv'
<1>1. request[w].step = "clear" /\ request[w] # NoRequest
  BY DEF Clear, At, NoRequest
<1>2. /\ rows' = {} /\ TakenOut(w, rows) /\ Goto(w, "add")
      /\ UNCHANGED <<disk, acked, purging, thumb, remembers, bounds>>
  BY DEF Clear
<1>3. rows \in SUBSET Games
  BY DEF IInv, TypeOK
<1>4. upload.at = w => upload.whole \subseteq OnTheWay(w)'
  <2>1. request'[w].step = "add" /\ request'[w].batch = request[w].batch
    BY <1>1, <1>2, GotoType DEF IInv, Steps
  <2> QED
    BY <1>1, <2>1 DEF IInv, Meaning, During, OnTheWay
<1>5. Meaning'
  BY <1>1, <1>2, <1>3, <1>4, TakingKeeps
<1>6. TypeOK'
  <2>1. list' \in Lists /\ reading' \in Lists
    BY DEF Clear, NotInvalidated, Earlier, Lists, IInv, TypeOK
  <2>2. request' \in [Workers -> Request \cup {NoRequest}]
    BY <1>1, <1>2, GotoType DEF IInv, Steps
  <2>3. lost' \in SUBSET Games /\ upload' \in Upload \cup {NoUpload}
    BY <1>2, <1>3, TakenOutType
  <2> QED
    BY <1>2, <2>1, <2>2, <2>3 DEF IInv, TypeOK, bounds
<1> QED
  BY <1>5, <1>6 DEF IInv

\* A delta deletes what it is about to add again.
LEMMA ForgetOldKeeps ==
  ASSUME IInv, NEW w \in Workers, ForgetOld(w)
  PROVE  IInv'
<1> DEFINE b == request[w].batch
<1>1. request[w].step = "forget" /\ request[w] # NoRequest
  BY DEF ForgetOld, At, NoRequest
<1>2. /\ rows' = Deleted(b) /\ TakenOut(w, b) /\ Goto(w, "add")
      /\ UNCHANGED <<disk, acked, purging, thumb, remembers, bounds>>
  BY DEF ForgetOld
<1>3. b \in SUBSET Games
  BY <1>1 DEF IInv, TypeOK, Request
<1>4. rows' \subseteq rows /\ rows \ rows' \subseteq b \cup Namesakes(b)
  BY <1>2, <1>3, DeletedTakes DEF IInv
<1>5. upload.at = w => upload.whole \subseteq upload.left \cup OnTheWay(w)' \cup (Kept \ b)
  <2>1. request'[w].step = "add" /\ request'[w].batch = b
    BY <1>1, <1>2, GotoType DEF IInv, Steps
  <2> QED
    BY <1>1, <2>1 DEF IInv, Meaning, During, OnTheWay
<1> HIDE DEF b
<1>6. Meaning'
  BY <1>1, <1>2, <1>3, <1>4, <1>5, TakingKeeps
<1>7. TypeOK'
  <2>1. list' \in Lists /\ reading' \in Lists
    BY DEF ForgetOld, Invalidated, Earlier, Lists, IInv, TypeOK
  <2>2. request' \in [Workers -> Request \cup {NoRequest}]
    BY <1>1, <1>2, GotoType DEF IInv, Steps
  <2>3. lost' \in SUBSET Games /\ upload' \in Upload \cup {NoUpload}
    BY <1>2, <1>3, <1>4, TakenOutType
  <2> QED
    BY <1>2, <1>4, <2>1, <2>2, <2>3 DEF IInv, TypeOK, bounds
<1> QED
  BY <1>6, <1>7 DEF IInv

\* A delta drops games that are not of its whole.
LEMMA DropKeeps ==
  ASSUME IInv, NEW w \in Workers, Drop(w)
  PROVE  IInv'
<1> DEFINE gone == request[w].gone
<1>1. request[w].step = "drop" /\ request[w] # NoRequest
  BY DEF Drop, At, NoRequest
<1>2. /\ rows' = Deleted(gone) /\ TakenOut(w, gone) /\ Goto(w, "record")
      /\ UNCHANGED <<disk, acked, purging, thumb, remembers, bounds>>
  BY DEF Drop
<1>3. gone \in SUBSET Games
  BY <1>1 DEF IInv, TypeOK, Request
<1>4. rows' \subseteq rows /\ rows \ rows' \subseteq gone \cup Namesakes(gone)
  BY <1>2, <1>3, DeletedTakes DEF IInv
<1>5. upload.at = w => upload.whole \subseteq upload.left \cup OnTheWay(w)' \cup (Kept \ gone)
  <2>1. upload.at = w => upload.whole \subseteq upload.left \cup Kept /\ upload.whole \cap gone = {}
    BY <1>1 DEF IInv, Meaning, During, GoneIsGone, OnTheWay
  <2> QED
    BY <2>1
<1> HIDE DEF gone
<1>6. Meaning'
  BY <1>1, <1>2, <1>3, <1>4, <1>5, TakingKeeps
<1>7. TypeOK'
  <2>1. list' \in Lists /\ reading' \in Lists
    BY DEF Drop, Invalidated, Earlier, Lists, IInv, TypeOK
  <2>2. request' \in [Workers -> Request \cup {NoRequest}]
    BY <1>1, <1>2, GotoType DEF IInv, Steps
  <2>3. lost' \in SUBSET Games /\ upload' \in Upload \cup {NoUpload}
    BY <1>2, <1>3, <1>4, TakenOutType
  <2> QED
    BY <1>2, <1>4, <2>1, <2>2, <2>3 DEF IInv, TypeOK, bounds
<1> QED
  BY <1>6, <1>7 DEF IInv

\* A request that stores games and goes on: they are kept from now on.
LEMMA StoringKeeps ==
  ASSUME IInv, NEW w \in Workers, request[w] # NoRequest, NEW games \in SUBSET Games,
         Stored(games),
         request' \in [Workers -> Request \cup {NoRequest}],
         \A v \in Workers : v # w => request'[v] = request[v],
         request'[w] # NoRequest,
         request'[w].whole = request[w].whole /\ request'[w].gone = request[w].gone,
         request'[w].mode = request[w].mode /\ request'[w].last = request[w].last,
         request'[w].step \in {"add", "drop", "record"},
         OnTheWay(w) \subseteq OnTheWay(w)' \cup games
  PROVE  Meaning' /\ rows' \in SUBSET Games /\ lost' \in SUBSET Games
<1>1. /\ Kept' = Kept \cup games /\ UNCHANGED <<upload, thumb>>
      /\ rows' \in SUBSET Games /\ lost' \in SUBSET Games
  BY DEF Stored, Upserted, drone, Kept, IInv, TypeOK
<1>2. CASE upload.at = w
  <2>1. upload \in Upload
    BY <1>2, WaitingShape
  <2>2. upload.whole \subseteq upload.left \cup OnTheWay(w)' \cup Kept'
    BY <1>1, <1>2 DEF IInv, Meaning, During
  <2>3. thumb' # None => thumb' \subseteq Kept' \cup upload'.took
    BY <1>1 DEF IInv, Meaning, OnlyLostIsMissing, Kept
  <2> QED
    BY <1>1, <1>2, <2>1, <2>2, <2>3, OwnStepKeeps
<1>3. CASE upload.at # w
  BY <1>1, <1>3, OthersKeep
<1> QED
  BY <1>1, <1>2, <1>3

\* A chunk stores its batch.
LEMMA AddChunkKeeps ==
  ASSUME IInv, NEW w \in Workers, AddChunk(w)
  PROVE  IInv'
<1> DEFINE b == request[w].batch
<1>1. request[w].step = "add" /\ request[w] # NoRequest /\ Stored(b) /\ Goto(w, "record")
  BY DEF AddChunk, At, NoRequest
<1>2. b \in SUBSET Games /\ OnTheWay(w) = b
  BY <1>1 DEF IInv, TypeOK, Request, OnTheWay
<1>3. /\ request' \in [Workers -> Request \cup {NoRequest}]
      /\ request'[w] # NoRequest /\ request'[w].step = "record"
      /\ request'[w].mode = request[w].mode /\ request'[w].last = request[w].last
      /\ request'[w].whole = request[w].whole /\ request'[w].gone = request[w].gone
      /\ \A v \in Workers : v # w => request'[v] = request[v]
  BY <1>1, GotoType DEF IInv, Steps
<1> HIDE DEF b
<1>4. Meaning' /\ rows' \in SUBSET Games /\ lost' \in SUBSET Games
  BY <1>1, <1>2, <1>3, StoringKeeps
<1>5. list' \in Lists /\ reading' \in Lists
  BY DEF AddChunk, Invalidated, Earlier, Lists, IInv, TypeOK
<1>6. UNCHANGED <<disk, acked, upload, purging, thumb, remembers, changes, calls, faults>>
  BY <1>1 DEF Stored, drone, bounds
<1> QED
  BY <1>3, <1>4, <1>5, <1>6 DEF IInv, TypeOK

\* The games of one system are stored.
LEMMA AddKeeps ==
  ASSUME IInv, NEW w \in Workers, Add(w)
  PROVE  IInv'
<1>1. request[w].step = "add" /\ request[w] # NoRequest /\ request[w] \in Request
  BY DEF Add, At, NoRequest, IInv, TypeOK
<1>2. PICK g \in request[w].batch :
        LET games == {h \in request[w].batch : System[h] = System[g]}
        IN /\ Stored(games)
           /\ Invalidated(games)
           /\ request' = [request EXCEPT ![w].batch = @ \ games]
  BY DEF Add
<1> DEFINE games == {h \in request[w].batch : System[h] = System[g]}
<1>3. games \in SUBSET Games
  BY <1>1 DEF Request
<1>4. Stored(games) /\ Invalidated(games) /\ request' = [request EXCEPT ![w].batch = @ \ games]
  BY <1>2
<1> HIDE DEF games
<1>5. /\ request'[w] \in Request /\ request'[w].step = "add"
      /\ request'[w].mode = request[w].mode /\ request'[w].last = request[w].last
      /\ request'[w].whole = request[w].whole /\ request'[w].gone = request[w].gone
      /\ request'[w].batch = request[w].batch \ games
      /\ request' \in [Workers -> Request \cup {NoRequest}]
      /\ \A v \in Workers : v # w => request'[v] = request[v]
  BY <1>1, <1>4 DEF IInv, TypeOK, Request
<1>6. request'[w] # NoRequest
  BY <1>5 DEF NoRequest
<1>7. OnTheWay(w) \subseteq OnTheWay(w)' \cup games
  BY <1>1, <1>5 DEF OnTheWay
<1>8. Meaning' /\ rows' \in SUBSET Games /\ lost' \in SUBSET Games
  BY <1>1, <1>3, <1>4, <1>5, <1>6, <1>7, StoringKeeps
<1>9. list' \in Lists /\ reading' \in Lists
  BY <1>4 DEF Invalidated, Earlier, Lists, IInv, TypeOK
<1>10. UNCHANGED <<disk, acked, upload, purging, thumb, remembers, changes, calls, faults>>
  BY <1>4 DEF Stored, drone, bounds
<1> QED
  BY <1>5, <1>8, <1>9, <1>10 DEF IInv, TypeOK

\* After the last system the request goes on.
LEMMA AddEndsKeeps ==
  ASSUME IInv, NEW w \in Workers, AddEnds(w)
  PROVE  IInv'
<1> DEFINE step == IF request[w].mode = "delta" THEN "drop" ELSE "record"
<1>1. request[w].step = "add" /\ request[w] # NoRequest /\ request[w].batch = {} /\ Goto(w, step)
  BY DEF AddEnds, At, NoRequest
<1>2. UNCHANGED <<disk, acked, upload, purging, rows, thumb, remembers, lost, list, reading, changes, calls, faults>>
  BY DEF AddEnds, drone, bounds
<1>3. step \in {"drop", "record"} /\ step \in Steps
  BY DEF Steps
<1> HIDE DEF step
<1>4. /\ request' \in [Workers -> Request \cup {NoRequest}]
      /\ request'[w] # NoRequest /\ request'[w].step = step
      /\ request'[w].mode = request[w].mode /\ request'[w].last = request[w].last
      /\ request'[w].whole = request[w].whole /\ request'[w].gone = request[w].gone
      /\ \A v \in Workers : v # w => request'[v] = request[v]
  BY <1>1, <1>3, GotoType DEF IInv
<1>5. Kept' = Kept /\ OnTheWay(w) = {}
  BY <1>1, <1>2 DEF Kept, OnTheWay
<1>6. TypeOK'
  BY <1>2, <1>4 DEF IInv, TypeOK
<1>7. CASE upload.at = w
  <2>1. upload \in Upload
    BY <1>7, WaitingShape
  <2>2. upload.whole \subseteq upload.left \cup OnTheWay(w)' \cup Kept'
    BY <1>5, <1>7 DEF IInv, Meaning, During
  <2>3. thumb' # None => thumb' \subseteq Kept' \cup upload'.took
    BY <1>2, <1>5 DEF IInv, Meaning, OnlyLostIsMissing, Kept
  <2> QED
    BY <1>2, <1>3, <1>4, <1>6, <1>7, <2>1, <2>2, <2>3, OwnStepKeeps DEF IInv
<1>8. CASE upload.at # w
  BY <1>2, <1>4, <1>5, <1>6, <1>8, OthersKeep DEF IInv
<1> QED
  BY <1>7, <1>8

\* A thumbprint that is recorded at the Drone's request is of games that are
\* kept: there is nothing left, and nothing on the way.
LEMMA RecordKeeps ==
  ASSUME IInv, NEW w \in Workers, Record(w)
  PROVE  IInv'
<1> DEFINE complete == IsComplete(request[w])
           whole == request[w].whole
<1>1. /\ request[w].step = "record" /\ request[w] # NoRequest /\ Goto(w, "answer")
      /\ thumb' = Coalesced(thumb, IF complete THEN whole ELSE None)
      /\ lost' = IF complete /\ ~IsAwaited(w) THEN lost \cup (whole \ rows) ELSE lost
  BY DEF Record, At, NoRequest
<1>2. UNCHANGED <<disk, acked, upload, purging, rows, remembers, list, reading, changes, calls, faults>>
  BY DEF Record, drone, bounds
<1>3. request[w] \in Request /\ whole \in SUBSET Games /\ whole # None
  BY <1>1 DEF IInv, TypeOK, Request
<1>4. thumb' = IF complete THEN whole ELSE thumb
  BY <1>1, <1>3 DEF Coalesced
<1>5. /\ request' \in [Workers -> Request \cup {NoRequest}]
      /\ request'[w] # NoRequest /\ request'[w].step = "answer"
      /\ request'[w].mode = request[w].mode /\ request'[w].last = request[w].last
      /\ request'[w].whole = request[w].whole /\ request'[w].gone = request[w].gone
      /\ \A v \in Workers : v # w => request'[v] = request[v]
  BY <1>1, GotoType DEF IInv, Steps
<1>6. TypeOK'
  BY <1>1, <1>2, <1>3, <1>4, <1>5 DEF IInv, TypeOK
<1>7. CASE upload.at = w
  <2>1. upload \in Upload
    BY <1>7, WaitingShape
  <2>2. Kept' = Kept
    BY <1>1, <1>2, <1>7 DEF Kept, IsAwaited
  <2>3. upload.whole = whole /\ upload.whole \subseteq upload.left \cup Kept
    BY <1>1, <1>7 DEF IInv, Meaning, During, OnTheWay
  <2>4. complete <=> upload.left = {}
    BY <1>1, <1>7 DEF IInv, Meaning, During, IsComplete
  <2>5. complete => thumb' \subseteq Kept'
    BY <1>4, <2>2, <2>3, <2>4
  <2>6. thumb' # None => thumb' \subseteq Kept' \cup upload'.took
    BY <1>2, <1>4, <2>2, <2>5 DEF IInv, Meaning, OnlyLostIsMissing, Kept
  <2>7. upload.whole \subseteq upload.left \cup OnTheWay(w)' \cup Kept'
    BY <2>2, <2>3
  <2> HIDE DEF complete, whole
  <2> QED
    BY <1>2, <1>5, <1>6, <1>7, <2>1, <2>4, <2>5, <2>6, <2>7, OwnStepKeeps DEF IInv
<1>8. CASE upload.at # w
  <2>1. Kept \subseteq Kept' /\ (complete => whole \subseteq Kept')
    BY <1>1, <1>2, <1>8 DEF Kept, IsAwaited
  <2>2. thumb' = thumb \/ thumb' \subseteq Kept'
    BY <1>4, <2>1
  <2> QED
    BY <1>2, <1>5, <1>6, <1>8, <2>1, <2>2, OthersKeep DEF IInv
<1> QED
  BY <1>7, <1>8

\* The last answer leaves a thumbprint of games that are kept.
LEMMA AnswerKeeps ==
  ASSUME IInv, NEW w \in Workers, Answer(w)
  PROVE  IInv'
<1>1. request[w].step = "answer" /\ request[w] # NoRequest /\ request' = [request EXCEPT ![w] = NoRequest]
  BY DEF Answer, At, NoRequest
<1>2. thumb' \in {None, thumb}
  BY MirrorWipes DEF Answer, Seen
<1>3. UNCHANGED <<disk, rows, remembers, lost, list, reading, changes, calls, faults>>
  BY DEF Answer, bounds
<1>4. Kept' = Kept
  BY <1>3 DEF Kept
<1>5. request' \in [Workers -> Request \cup {NoRequest}] /\ \A v \in Workers : v # w => request'[v] = request[v]
  BY <1>1 DEF IInv, TypeOK
<1>6. CASE upload.at # w
  <2>1. UNCHANGED <<upload, acked, purging>>
    BY <1>6 DEF Answer, IsAwaited
  <2>2. TypeOK'
    BY <1>2, <1>3, <1>5, <2>1 DEF IInv, TypeOK
  <2> QED
    BY <1>2, <1>4, <1>5, <1>6, <2>1, <2>2, OthersKeep DEF IInv
<1>7. CASE upload.at = w /\ upload.left # {}
  <2>1. upload' = [upload EXCEPT !.at = None] /\ UNCHANGED <<acked, purging>>
    BY <1>7 DEF Answer, IsAwaited
  <2>2. upload \in Upload
    BY <1>7, WaitingShape
  <2>3. /\ upload' \in Upload /\ upload'.at = None /\ upload'.whole = upload.whole
        /\ upload'.left = upload.left /\ upload'.gone = upload.gone /\ upload'.mode = upload.mode
        /\ upload'.took = upload.took
    BY <2>1, <2>2 DEF Upload
  <2>4. TypeOK'
    BY <1>2, <1>3, <1>5, <2>1, <2>3 DEF IInv, TypeOK
  <2>5. Between'
    BY <1>1, <1>4, <1>7, <2>3 DEF IInv, Meaning, During, OnTheWay, Between
  <2>6. ASSUME NEW v \in Workers PROVE During(v)'
    BY <2>3 DEF During
  <2>7. GoneIsGone' /\ OnlyLostIsMissing'
    BY <1>2, <1>3, <2>3 DEF IInv, Meaning, GoneIsGone, OnlyLostIsMissing
  <2> QED
    BY <2>4, <2>5, <2>6, <2>7 DEF IInv, Meaning
<1>8. CASE upload.at = w /\ upload.left = {}
  <2>1. upload' = NoUpload /\ acked' = upload.whole /\ purging' = (purging /\ ~upload.purge)
    BY <1>8 DEF Answer, IsAwaited
  <2>2. upload \in Upload
    BY <1>8, WaitingShape
  <2>3. acked' \in {None} \cup SUBSET Games /\ purging' \in BOOLEAN
    BY <2>1, <2>2 DEF Upload
  <2>4. TypeOK'
    BY <1>2, <1>3, <1>5, <2>1, <2>3 DEF IInv, TypeOK
  <2>5. thumb' = None \/ thumb' \subseteq Kept'
    BY <1>1, <1>2, <1>4, <1>8 DEF IInv, Meaning, During
  <2> QED
    BY <2>1, <2>4, <2>5, OverKeeps DEF IInv
<1> QED
  BY <1>6, <1>7, <1>8

\* A request that fails ends the upload it belongs to.
LEMMA FailKeeps ==
  ASSUME IInv, NEW w \in Workers, Fail(w)
  PROVE  IInv'
<1>1. request' = [request EXCEPT ![w] = NoRequest] /\ faults' \in 0..MaxFaults
  BY DEF Fail, Fault, IInv, TypeOK
<1>2. thumb' \in {None, thumb} /\ remembers' \subseteq Workers
  BY MirrorWipes DEF Fail, Seen, IInv, TypeOK
<1>3. UNCHANGED <<disk, purging, rows, list, reading, changes, calls>>
  BY DEF Fail, Fault
<1>4. request' \in [Workers -> Request \cup {NoRequest}] /\ \A v \in Workers : v # w => request'[v] = request[v]
  BY <1>1 DEF IInv, TypeOK
<1>5. CASE upload.at = w
  <2>1. upload' = NoUpload /\ acked' = None /\ lost' = lost \cup (upload.took \ rows)
    BY <1>5 DEF Fail, IsAwaited
  <2>2. upload \in Upload
    BY <1>5, WaitingShape
  <2>3. lost' \subseteq Games
    BY <2>1, <2>2 DEF Upload, IInv, TypeOK
  <2>4. TypeOK'
    BY <1>1, <1>2, <1>3, <1>4, <2>1, <2>3 DEF IInv, TypeOK
  <2> QED
    BY <1>2, <1>3, <2>1, <2>4, GivenUpKeeps DEF IInv
<1>6. CASE upload.at # w
  <2>1. UNCHANGED <<upload, acked, lost>>
    BY <1>6 DEF Fail, IsAwaited
  <2>2. TypeOK'
    BY <1>1, <1>2, <1>3, <1>4, <2>1 DEF IInv, TypeOK
  <2>3. Kept \subseteq Kept'
    BY <1>3, <2>1 DEF Kept
  <2> QED
    BY <1>2, <1>4, <1>6, <2>1, <2>2, <2>3, OthersKeep DEF IInv
<1> QED
  BY <1>5, <1>6

-----------------------------------------------------------------------------
(* Users, the platform, the cache.                                         *)

\* What a purge takes out is lost.
LEMMA PurgeKeeps ==
  ASSUME IInv, NEW w \in Workers, Purge(w)
  PROVE  IInv'
<1>1. rows' = {} /\ lost' = lost \cup rows /\ purging' = TRUE /\ calls' \in 0..MaxCalls
  BY DEF Purge, Call, IInv, TypeOK
<1>2. thumb' \in {None, thumb}
  BY MirrorWipes DEF Purge, Seen
<1>3. UNCHANGED <<disk, acked, upload, request, remembers, changes, faults>>
  BY DEF Purge, Call
<1>4. list' \in Lists /\ reading' \in Lists
  BY DEF Purge, NotInvalidated, Earlier, Lists, IInv, TypeOK
<1>5. TypeOK'
  BY <1>1, <1>2, <1>3, <1>4 DEF IInv, TypeOK
<1>6. Kept \subseteq Kept'
  BY <1>1 DEF Kept
<1> QED
  BY <1>2, <1>3, <1>5, <1>6, OthersKeep DEF IInv

\* Overviews, retired workers and the cached list leave the uploads alone.
LEMMA BystandersKeep ==
  ASSUME IInv,
         \/ \E w \in Workers : AdminOverview(w) \/ Recycle(w)
         \/ ReadMasterList \/ CacheMasterList \/ Expire
  PROVE  IInv'
<1>1. UNCHANGED <<disk, acked, upload, purging, rows, thumb, request, lost, changes, faults>>
  BY DEF AdminOverview, Recycle, ReadMasterList, CacheMasterList, Expire, Call, drone, bounds
<1>2. remembers' \subseteq Workers /\ calls' \in 0..MaxCalls
  BY DEF AdminOverview, Recycle, ReadMasterList, CacheMasterList, Expire, Call, bounds, IInv, TypeOK
<1>3. list' \in Lists /\ reading' \in Lists
  BY DEF AdminOverview, Recycle, ReadMasterList, CacheMasterList, Expire, Lists, IInv, TypeOK
<1>4. TypeOK'
  BY <1>1, <1>2, <1>3 DEF IInv, TypeOK
<1>5. Kept' = Kept
  BY <1>1 DEF Kept
<1> QED
  BY <1>1, <1>4, <1>5, OthersKeep DEF IInv

-----------------------------------------------------------------------------
(* The invariant.                                                          *)

\* A Drone that has just registered has uploaded nothing.
LEMMA InitKeeps == Init => IInv
<1> SUFFICES ASSUME Init PROVE IInv
  OBVIOUS
<1>1. TypeOK
  <2>1. request \in [Workers -> Request \cup {NoRequest}]
    BY DEF Init
  <2>2. disk \subseteq Games /\ rows \subseteq Games /\ lost \subseteq Games /\ remembers \subseteq Workers
    BY DEF Init
  <2>3. thumb \in {None} /\ acked \in {None} /\ upload \in {NoUpload} /\ purging \in BOOLEAN
    BY DEF Init
  <2>4. list \in Lists /\ reading \in Lists
    BY DEF Init, Lists
  <2>5. changes \in 0..MaxChanges /\ calls \in 0..MaxCalls /\ faults \in 0..MaxFaults
    BY DEF Init
  <2> QED
    BY <2>1, <2>2, <2>3, <2>4, <2>5 DEF TypeOK
<1>2. upload = NoUpload /\ upload.at = None /\ upload.gone = {} /\ thumb = None
  BY DEF Init, NoUpload
<1>3. Between /\ GoneIsGone /\ OnlyLostIsMissing
  BY <1>2 DEF Between, GoneIsGone, OnlyLostIsMissing
<1>4. \A w \in Workers : During(w)
  BY <1>2 DEF During
<1> QED
  BY <1>1, <1>3, <1>4 DEF IInv, Meaning

\* Every step keeps the invariant.
LEMMA NextKeeps == IInv /\ [Next]_vars => IInv'
<1> SUFFICES ASSUME IInv, [Next]_vars PROVE IInv'
  OBVIOUS
<1>1. ASSUME NEW g \in Games, Install(g) \/ Remove(g) PROVE IInv'
  BY <1>1, DiskKeeps
<1>2. CASE GiveUp
  BY <1>2, GiveUpKeeps
<1>3. ASSUME NEW w \in Workers, Heartbeat(w) \/ Receive(w) \/ Fail(w) \/ Purge(w) PROVE IInv'
  BY <1>3, HeartbeatKeeps, ReceiveKeeps, FailKeeps, PurgeKeeps
<1>4. ASSUME NEW w \in Workers, Serve(w) PROVE IInv'
  BY <1>4, ClearKeeps, ForgetOldKeeps, AddChunkKeeps, AddKeeps, AddEndsKeeps, DropKeeps,
     RecordKeeps, AnswerKeeps DEF Serve
<1>5. CASE \/ \E w \in Workers : AdminOverview(w) \/ Recycle(w)
           \/ ReadMasterList \/ CacheMasterList \/ Expire
  BY <1>5, BystandersKeep
<1>6. CASE UNCHANGED vars
  <2>1. UNCHANGED <<disk, acked, upload, purging, rows, thumb, request, remembers, lost, list, reading,
                    changes, calls, faults>>
    BY <1>6 DEF vars, drone, bounds
  <2>2. Kept' = Kept /\ TypeOK'
    BY <2>1 DEF Kept, IInv, TypeOK
  <2> QED
    BY <2>1, <2>2, OthersKeep DEF IInv
<1> QED
  BY <1>1, <1>2, <1>3, <1>4, <1>5, <1>6 DEF Next

\* What an upload has left, what its request is still to write, and what is
\* kept make up all the games it is of, whichever requests go on beside it.
THEOREM InductiveInvariant == Spec => []IInv
BY InitKeeps, NextKeeps, PTL DEF Spec

\* Every variable keeps its type.
THEOREM TypeCorrect == Spec => []TypeOK
<1>1. IInv => TypeOK
  BY DEF IInv
<1> QED
  BY <1>1, InductiveInvariant, PTL

\* A thumbprint names no game that is missing from the rows, but those that
\* were lost and those the upload in progress has taken out.
THEOREM OnlyTheLostAreMissing == Spec => []OnlyLostIsMissing
<1>1. IInv => OnlyLostIsMissing
  BY DEF IInv, Meaning
<1> QED
  BY <1>1, InductiveInvariant, PTL
=============================================================================
