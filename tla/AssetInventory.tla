--------------------------- MODULE AssetInventory ---------------------------
(***************************************************************************)
(* How the games of a Drone get into drone_games and stay there            *)
(* (store_rom_metadata of db.py and the asset tables of postgres_store.py):*)
(* the uploads of the Drone, the thumbprint that every heartbeat echoes    *)
(* and by which the Drone decides to upload again, the purge a user can    *)
(* ask for, and the cached master list.                                    *)
(*                                                                         *)
(* A worker serves one request at a time, but each statement is a          *)
(* transaction of its own: the others mirror, purge, read and serve in     *)
(* between, and a request may stop after any of them.  A Drone that gives  *)
(* up waiting does not stop the request: it goes on beside the next upload.*)
(* A thumbprint is the set of games it was computed of.  BIOS files take   *)
(* the same way as games.  The Drone's own program is not in the           *)
(* repository: it uploads when the echo differs from its disk (main.py     *)
(* 2533-2536), one upload at a time and all of it again after one that     *)
(* failed, a delta only on top of an answered upload whose thumbprint is   *)
(* the echo.                                                               *)
(***************************************************************************)
EXTENDS Integers, FiniteSets

CONSTANTS Games,      \* games, of one system each
          System,     \* the system of a game
          GameId,     \* the gamelist id the Drone sends for a game, or None
          Workers,    \* the processes that serve requests
          Held,       \* the games the Drone held when it registered
          Registrar,  \* the worker that registered it
          None,
          MaxChanges, \* bound on installed and removed games
          MaxCalls,   \* bound on purges, admin overviews and master list reads
          MaxFaults   \* bound on requests that fail or are given up

ASSUME GamesAssumption == DOMAIN System = Games /\ DOMAIN GameId = Games
ASSUME StartAssumption == Held \subseteq Games /\ Registrar \in Workers
ASSUME NoneAssumption == None \notin Workers /\ \A games \in SUBSET Games : None # games
ASSUME BoundsAssumption == MaxChanges \in Nat /\ MaxCalls \in Nat /\ MaxFaults \in Nat

VARIABLES
  disk,       \* the games the Drone holds
  rows,       \* drone_games
  thumb,      \* drones.romset_files_thumbprint
  acked,      \* what the last upload of the Drone was of, if it was answered
  upload,     \* the Drone's upload in progress
  request,    \* the upload request a worker serves
  purging,    \* whether a purge_asset_cache action is not carried out yet
  remembers,  \* the workers whose db.devices holds the Drone
  lost,       \* history: games taken out of the rows, and not stored since, by
              \* a request that was not answered, by a purge, or under the id of
              \* another game, and those only such a request claims to have stored
  list,       \* the cached master list: none, current, or of earlier rows
  reading,    \* the one a worker has read but not cached yet
  changes, calls, faults

bounds == <<changes, calls, faults>>
drone == <<disk, acked, upload, purging>>
vars == <<drone, rows, thumb, request, remembers, lost, list, reading, bounds>>

-----------------------------------------------------------------------------
Modes == {"full", "chunk", "delta"}

NoUpload == [mode |-> "none", at |-> None, purge |-> FALSE,
             whole |-> {}, left |-> {}, gone |-> {}, took |-> {}]

\* "at" is the worker the Drone waits for; "took", history, what its requests
\* have taken out of the rows.
Upload == [mode : Modes, at : Workers \cup {None}, purge : BOOLEAN,
           whole : SUBSET Games, left : SUBSET Games, gone : SUBSET Games, took : SUBSET Games]

\* The steps of store_rom_metadata.
Steps == {"clear", "forget", "add", "drop", "record", "answer"}

NoRequest == [step |-> "none", mode |-> "none", last |-> FALSE,
              whole |-> {}, batch |-> {}, gone |-> {}]

\* "last" is what the request says of itself: inventory_complete, or the index
\* of a delta's last batch.
Request == [step : Steps, mode : Modes, last : BOOLEAN,
            whole : SUBSET Games, batch : SUBSET Games, gone : SUBSET Games]

Lists == {"none", "current", "earlier"}

TypeOK ==
  /\ disk \subseteq Games /\ rows \subseteq Games /\ lost \subseteq Games
  /\ thumb \in {None} \cup SUBSET Games
  /\ acked \in {None} \cup SUBSET Games
  /\ upload \in Upload \cup {NoUpload}
  /\ request \in [Workers -> Request \cup {NoRequest}]
  /\ purging \in BOOLEAN
  /\ remembers \subseteq Workers
  /\ list \in Lists /\ reading \in Lists
  /\ changes \in 0..MaxChanges /\ calls \in 0..MaxCalls /\ faults \in 0..MaxFaults

\* A Drone just registered.
Init ==
  /\ disk = Held
  /\ rows = {} /\ thumb = None /\ acked = None
  /\ upload = NoUpload /\ request = [w \in Workers |-> NoRequest]
  /\ purging = FALSE
  /\ remembers = {Registrar}
  /\ lost = {}
  /\ list = "none" /\ reading = "none"
  /\ changes = 0 /\ calls = 0 /\ faults = 0

-----------------------------------------------------------------------------
Call == calls < MaxCalls /\ calls' = calls + 1 /\ UNCHANGED <<changes, faults>>
Fault == faults < MaxFaults /\ faults' = faults + 1 /\ UNCHANGED <<changes, calls>>
IsFree(w) == request[w] = NoRequest
IsAwaited(w) == upload.at = w
At(w, step) == request[w].step = step
Goto(w, step) == request' = [request EXCEPT ![w].step = step]

\* A mirror that writes NULL whether or not the worker remembers the Drone.
MirroredBlank(w) == None

\* What a mirror makes of the thumbprint: neither create_device nor
\* load_admin_overview_state puts it into db.devices, and the methods that
\* change it do so on a copy of the row, so a worker that remembers the Drone
\* mirrors NULL.
Mirrored(w) == IF w \in remembers THEN None ELSE thumb

\* update_device_last_seen, of which the mirror that ends it matters here.
Seen(w) == thumb' = Mirrored(w)

\* SET romset_files_thumbprint = COALESCE(new, old).
Coalesced(old, new) == IF new = None THEN old ELSE new

\* A batch counts as the whole inventory, whichever it is.
AnyBatch(r) == TRUE

\* should_compute_fingerprint goes by what the request says of itself,
\* whatever has become of the batches before it.
IsComplete(r) == r.mode = "full" \/ r.last

\* delete_device_asset_rows goes by the gamelist ids it is given, of whatever
\* system; a game without one is left alone.
Deleted(games) == {g \in rows : \A h \in games : GameId[h] = None \/ GameId[h] # GameId[g]}

\* ON CONFLICT (drone_id, system_name, gamelist_id) DO UPDATE.
Upserted(games) == rows \cup games

\* Rows change: invalidate_master_assets follows a statement about some games,
\* and a list being read is one of earlier rows.
Earlier(l) == IF l = "current" /\ rows' # rows THEN "earlier" ELSE l
Invalidated(games) == list' = (IF games = {} THEN list ELSE "none") /\ reading' = Earlier(reading)
NotInvalidated == list' = Earlier(list) /\ reading' = Earlier(reading)

\* Other games under the ids of some.
Namesakes(games) ==
  {g \in Games \ games : \E h \in games : GameId[h] # None /\ GameId[h] = GameId[g]}

\* History of a statement of worker w that was to take "named" out of the rows.
TakenOut(w, named) ==
  LET taken == rows \ rows'
  IN IF IsAwaited(w)
     THEN /\ upload' = [upload EXCEPT !.took = @ \cup (taken \cap named)]
          /\ lost' = lost \cup (taken \cap Namesakes(named))
     ELSE lost' = lost \cup taken /\ UNCHANGED upload

-----------------------------------------------------------------------------
(* The Drone.                                                              *)

Change == changes < MaxChanges /\ changes' = changes + 1 /\ UNCHANGED <<calls, faults>>

Install(g) ==
  /\ g \notin disk
  /\ Change
  /\ disk' = disk \cup {g}
  /\ UNCHANGED <<acked, upload, purging, rows, thumb, request, remembers, lost, list, reading>>

Remove(g) ==
  /\ g \in disk
  /\ Change
  /\ disk' = disk \ {g}
  /\ UNCHANGED <<acked, upload, purging, rows, thumb, request, remembers, lost, list, reading>>

\* An upload of what is on the disk, given the echo of a heartbeat.
NewUpload(mode, echo) ==
  [NoUpload EXCEPT !.mode = mode, !.whole = disk, !.purge = purging,
                   !.left = IF mode = "delta" THEN disk \ echo ELSE disk,
                   !.gone = IF mode = "delta" THEN echo \ disk ELSE {}]

PossibleModes(echo) ==
  {"full", "chunk"} \cup (IF echo = None \/ echo # acked \/ purging THEN {} ELSE {"delta"})

\* drone_heartbeat: the answer echoes the thumbprint of the row and carries
\* the purge, if there is one.
Heartbeat(w) ==
  LET echo == Mirrored(w)
  IN /\ IsFree(w)
     /\ Seen(w)
     /\ IF upload = NoUpload /\ (echo # disk \/ purging)
        THEN \E mode \in PossibleModes(echo) : upload' = NewUpload(mode, echo)
        ELSE UNCHANGED upload
     /\ UNCHANGED <<disk, acked, purging, rows, request, remembers, lost, list, reading, bounds>>

\* The next request: everything, or a batch.
Batches == IF upload.mode = "full" THEN {upload.left}
           ELSE {b \in SUBSET upload.left : upload.left # {} => b # {}}

\* The Drone does not wait any longer and begins anew after a later heartbeat;
\* the request goes on.
GiveUp ==
  /\ upload.at # None
  /\ Fault
  /\ upload' = NoUpload /\ acked' = None
  /\ lost' = lost \cup (upload.took \ rows)
  /\ UNCHANGED <<disk, purging, rows, thumb, request, remembers, list, reading>>

-----------------------------------------------------------------------------
(* upload_drone_rom_metadata, on worker w.                                 *)

FirstStep == [full |-> "clear", chunk |-> "add", delta |-> "forget"]

\* get_current_drone, and the start of store_rom_metadata.
Receive(w) ==
  /\ upload # NoUpload /\ upload.at = None
  /\ IsFree(w)
  /\ \E b \in Batches :
       /\ upload' = [upload EXCEPT !.at = w, !.left = @ \ b]
       /\ request' = [request EXCEPT ![w] =
            [step |-> FirstStep[upload.mode], mode |-> upload.mode, last |-> upload.left = b,
             whole |-> upload.whole, batch |-> b, gone |-> upload.gone]]
  /\ Seen(w)
  /\ UNCHANGED <<disk, acked, purging, rows, remembers, lost, list, reading, bounds>>

\* replace_all: _clear_device_assets, which invalidates nothing.
Clear(w) ==
  /\ At(w, "clear")
  /\ rows' = {}
  /\ NotInvalidated
  /\ TakenOut(w, rows)
  /\ Goto(w, "add")
  /\ UNCHANGED <<disk, acked, purging, thumb, remembers, bounds>>

\* A delta first deletes the old rows of what it is about to add.
ForgetOld(w) ==
  /\ At(w, "forget")
  /\ rows' = Deleted(request[w].batch)
  /\ Invalidated(request[w].batch)
  /\ TakenOut(w, request[w].batch)
  /\ Goto(w, "add")
  /\ UNCHANGED <<disk, acked, purging, thumb, remembers, bounds>>

Stored(games) ==
  /\ rows' = Upserted(games)
  /\ lost' = lost \ games
  /\ UNCHANGED <<drone, thumb, remembers, bounds>>

\* _store_asset_inventory_chunk writes the rows at once and clears nothing on
\* the first chunk; the last one is "published", which invalidates once more.
AddChunk(w) ==
  /\ At(w, "add") /\ request[w].mode = "chunk"
  /\ Stored(request[w].batch)
  /\ IF request[w].last
     THEN list' = "none" /\ reading' = Earlier(reading)
     ELSE Invalidated(request[w].batch)
  /\ Goto(w, "record")

\* add_roms (upsert_device_assets), for one system after the other.
Add(w) ==
  /\ At(w, "add") /\ request[w].mode # "chunk"
  /\ \E g \in request[w].batch :
       LET games == {h \in request[w].batch : System[h] = System[g]}
       IN /\ Stored(games)
          /\ Invalidated(games)
          /\ request' = [request EXCEPT ![w].batch = @ \ games]

AddEnds(w) ==
  /\ At(w, "add") /\ request[w].mode # "chunk"
  /\ request[w].batch = {}
  /\ Goto(w, IF request[w].mode = "delta" THEN "drop" ELSE "record")
  /\ UNCHANGED <<drone, rows, thumb, remembers, lost, list, reading, bounds>>

\* "deleted" of a delta.
Drop(w) ==
  /\ At(w, "drop")
  /\ rows' = Deleted(request[w].gone)
  /\ Invalidated(request[w].gone)
  /\ TakenOut(w, request[w].gone)
  /\ Goto(w, "record")
  /\ UNCHANGED <<disk, acked, purging, thumb, remembers, bounds>>

\* update_device_asset_thumbprints, if the inventory is said to be complete.
Record(w) ==
  LET complete == IsComplete(request[w])
  IN /\ At(w, "record")
     /\ thumb' = Coalesced(thumb, IF complete THEN request[w].whole ELSE None)
     /\ lost' = IF complete /\ ~IsAwaited(w) THEN lost \cup (request[w].whole \ rows) ELSE lost
     /\ Goto(w, "answer")
     /\ UNCHANGED <<drone, rows, remembers, list, reading, bounds>>

\* The mirror that ends the call, and the answer: a Drone that waits for it
\* sends the next batch, or has finished, and with it the purge it was for.
Answer(w) ==
  /\ At(w, "answer")
  /\ Seen(w)
  /\ request' = [request EXCEPT ![w] = NoRequest]
  /\ IF ~IsAwaited(w)
     THEN UNCHANGED <<upload, acked, purging>>
     ELSE IF upload.left # {}
     THEN upload' = [upload EXCEPT !.at = None] /\ UNCHANGED <<acked, purging>>
     ELSE /\ upload' = NoUpload
          /\ acked' = upload.whole
          /\ purging' = (purging /\ ~upload.purge)
  /\ UNCHANGED <<disk, rows, remembers, lost, list, reading, bounds>>

\* A statement fails, whereupon the worker mirrors, or the worker is killed.
Fail(w) ==
  /\ ~IsFree(w)
  /\ Fault
  /\ \/ Seen(w) /\ UNCHANGED remembers
     \/ remembers' = remembers \ {w} /\ UNCHANGED thumb
  /\ request' = [request EXCEPT ![w] = NoRequest]
  /\ IF IsAwaited(w)
     THEN upload' = NoUpload /\ acked' = None /\ lost' = lost \cup (upload.took \ rows)
     ELSE UNCHANGED <<upload, acked, lost>>
  /\ UNCHANGED <<disk, purging, rows, list, reading>>

-----------------------------------------------------------------------------
(* Users, the platform, the cache.                                         *)

\* create_device_action for purge_asset_cache: the rows go at once, the
\* thumbprint stays; one at a time.
Purge(w) ==
  /\ IsFree(w) /\ ~purging
  /\ Call
  /\ rows' = {}
  /\ NotInvalidated
  /\ lost' = lost \cup rows
  /\ purging' = TRUE
  /\ Seen(w)
  /\ UNCHANGED <<disk, acked, upload, request, remembers>>

\* refresh_admin_overview_state reads all Drones into db.devices.
AdminOverview(w) ==
  /\ IsFree(w)
  /\ Call
  /\ remembers' = remembers \cup {w}
  /\ UNCHANGED <<drone, rows, thumb, request, lost, list, reading>>

\* Lambda retires an instance that is idle; a container goes on.
Recycle(w) ==
  /\ IsFree(w) /\ w \in remembers
  /\ remembers' = remembers \ {w}
  /\ UNCHANGED <<drone, rows, thumb, request, lost, list, reading, bounds>>

\* page_master_assets on a miss: the rows are read, then cached.
ReadMasterList ==
  /\ list = "none" /\ reading = "none"
  /\ Call
  /\ reading' = (IF rows = {} THEN "none" ELSE "current")
  /\ UNCHANGED <<drone, rows, thumb, request, remembers, lost, list>>

CacheMasterList ==
  /\ reading # "none"
  /\ list' = reading
  /\ reading' = "none"
  /\ UNCHANGED <<drone, rows, thumb, request, remembers, lost, bounds>>

\* ttl = 30.
Expire ==
  /\ list # "none"
  /\ list' = "none"
  /\ UNCHANGED <<drone, rows, thumb, request, remembers, lost, reading, bounds>>

Serve(w) ==
  \/ Clear(w) \/ ForgetOld(w) \/ AddChunk(w) \/ Add(w) \/ AddEnds(w)
  \/ Drop(w) \/ Record(w) \/ Answer(w)

Next ==
  \/ \E g \in Games : Install(g) \/ Remove(g)
  \/ GiveUp
  \/ \E w \in Workers :
       \/ Heartbeat(w) \/ Receive(w) \/ Serve(w) \/ Fail(w)
       \/ Purge(w) \/ AdminOverview(w) \/ Recycle(w)
  \/ ReadMasterList \/ CacheMasterList \/ Expire

Spec == Init /\ [][Next]_vars

\* A Drone goes on sending heartbeats and what it has begun to upload, a
\* worker finishes its request, Redis drops what has expired.
Fairness ==
  /\ WF_vars(\E w \in Workers : Heartbeat(w))
  /\ WF_vars(\E w \in Workers : Receive(w))
  /\ \A w \in Workers : WF_vars(Serve(w))
  /\ WF_vars(CacheMasterList)
  /\ WF_vars(Expire)

FairSpec == Spec /\ Fairness

-----------------------------------------------------------------------------
(* Properties.                                                             *)

\* The Drone believes the echo (db.py 2095-2103) and uploads nothing while it
\* is that of its disk.  So every game of the thumbprint is in the rows, but
\* for those in "lost" and those an upload has taken out that is not answered.
OnlyLostIsMissing == thumb # None => thumb \ rows \subseteq lost \cup upload.took

\* Once games stop coming and going, every upload that failed, every purge and
\* every wiped thumbprint is made up for and the cached master list shows no
\* earlier rows: uploading does not go on forever (main.py 2507-2512), unless a
\* worker remembers the Drone for good.
UploadingEnds ==
  (\A w \in Workers : []<>(w \notin remembers))
    => <>[](thumb = disk /\ upload = NoUpload /\ ~purging /\ list # "earlier")
=============================================================================
