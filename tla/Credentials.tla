----------------------------- MODULE Credentials -----------------------------
(***************************************************************************)
(* The stored credentials of the services: the envelope in each row, the     *)
(* server that seals and opens them under the keys it read at its start, and *)
(* `usarr key rotate`, another process over the same database and key files, *)
(* which nothing keeps from running while the server is up.                  *)
(*                                                                          *)
(* A key is its number, in the order keys were generated, and its id is the  *)
(* number too; Legacy is the fixed id that every keyring gives to the key in *)
(* secret.key.                                                               *)
(***************************************************************************)
EXTENDS Naturals, FiniteSets

CONSTANTS
  Rows,         \* ids of service instances, a set of positive numbers
  Hosts,        \* origins a base URL can name
  Requests,     \* PATCH requests in flight at once
  PageSize,     \* rotateBatchSize
  ExtraPasses,  \* rotateExtraPasses
  MaxKeys,      \* bound on the keys generated
  MaxEdits,     \* bound on the credentials entered
  MaxCrashes    \* bound on the ends of the server and of the rotation

ASSUME CredentialsAssumption ==
  /\ Rows \subseteq Nat \ {0} /\ IsFiniteSet(Rows) /\ Hosts # {}
  /\ PageSize \in Nat \ {0} /\ ExtraPasses \in Nat
  /\ MaxKeys \in Nat \ {0} /\ MaxEdits \in Nat /\ MaxCrashes \in Nat

VARIABLES
  row,      \* service_instance
  current,  \* the key in keys/secret.key
  pending,  \* keys/secret.key.new: absent, torn (created, not yet its content) or a key
  minted,   \* keys generated so far
  server,   \* the serving process: the keys it read when it started
  req,      \* PATCH /api/services/{id} between its read and its write
  rot,      \* usarr key rotate
  exposed,  \* history: rows sealed where no rotation looks any more
  edits, crashes

credentialsVars == <<row, current, pending, minted, server, req, rot, exposed, edits, crashes>>

Legacy == 0
Keys == 1..MaxKeys
Absent == [file |-> "absent", key |-> Legacy]

NoRow == [state |-> "none", host |-> CHOOSE h \in Hosts : TRUE,
          id |-> Legacy, by |-> Legacy, boundTo |-> CHOOSE h \in Hosts : TRUE]
NoRequest == [inst |-> 0, moves |-> FALSE, host |-> CHOOSE h \in Hosts : TRUE, enters |-> FALSE]
Down == [up |-> FALSE, primary |-> Legacy, extra |-> Legacy]
Idle == [at |-> "idle", old |-> Legacy, new |-> Legacy, after |-> 0, pass |-> 0,
         batch |-> [i \in {} |-> Legacy]]

\* What buildKeyring makes of the two files: every id a process can open a row under.
Ring(primary, extra) ==
  {<<Legacy, primary>>, <<primary, primary>>}
    \cup (IF extra = Legacy THEN {} ELSE {<<extra, extra>>})

OnDisk == Ring(current, IF pending.file = "key" THEN pending.key ELSE Legacy)

\* unwrapKey: the ring holds the id, and under it the key that wrapped the row.
Unwraps(ring, r) == <<r.id, r.by>> \in ring

Stored(i) == row[i].state # "none"

\* A list that leaves the soft-deleted rows out, as the other reads of the table do.
EnvelopesLive(after) == {i \in Rows : row[i].state = "live" /\ i > after}

\* ListCredentialEnvelopesIncludingDeleted, before its LIMIT ...
Envelopes(after) == {i \in Rows : Stored(i) /\ i > after}

\* ... and with it: all that there is, or the first PageSize.
IsPage(page, after) ==
  /\ page \subseteq Envelopes(after)
  /\ page = Envelopes(after) \/ Cardinality(page) = PageSize
  /\ Cardinality(page) <= PageSize
  /\ \A i \in page, j \in Envelopes(after) \ page : i < j

IsLast(i, page) == i \in page /\ \A j \in page : j <= i
------------------------------------------------------------------------------
(* The server.                                                               *)

StartServer ==
  /\ ~server.up /\ pending.file # "torn"
  /\ server' = [up |-> TRUE, primary |-> current, extra |-> pending.key]
  /\ UNCHANGED <<row, current, pending, minted, req, rot, exposed, edits, crashes>>

StopServer ==
  /\ server.up /\ crashes < MaxCrashes
  /\ server' = Down /\ crashes' = crashes + 1
  /\ req' = [q \in Requests |-> NoRequest]
  /\ UNCHANGED <<row, current, pending, minted, rot, exposed, edits>>

\* No rotation will read the row again before the server's key leaves the disk.
OutOfSight(i) ==
  \/ server.primary # current
  \/ rot.at = "verify" /\ i <= rot.after
  \/ rot.at = "promote"

\* sealKey, and the two columns it fills.
Seal(i, r) ==
  /\ row' = [row EXCEPT ![i] = [r EXCEPT !.id = server.primary, !.by = server.primary]]
  /\ edits' = edits + 1
  /\ exposed' = IF OutOfSight(i) THEN exposed \cup {i} ELSE exposed \ {i}

\* handleCreateService: the row and its envelope in one transaction.
CreateService(i, h) ==
  /\ server.up /\ ~Stored(i) /\ edits < MaxEdits
  /\ Seal(i, [NoRow EXCEPT !.state = "live", !.host = h, !.boundTo = h])
  /\ UNCHANGED <<current, pending, minted, server, req, rot, crashes>>

\* handleUpdateService up to its transaction: the row it read decides whether the
\* request may go without the credential, and which host the credential is for.
ReadForUpdate(q, i, moves, h, enters) ==
  /\ server.up /\ req[q] = NoRequest /\ row[i].state = "live"
  /\ moves \/ enters
  /\ ~moves => h = row[i].host
  /\ h # row[i].host => enters
  /\ enters => edits < MaxEdits
  /\ req' = [req EXCEPT ![q] = [inst |-> i, moves |-> moves, host |-> h, enters |-> enters]]
  /\ UNCHANGED <<row, current, pending, minted, server, rot, exposed, edits, crashes>>

\* The new base URL without the re-sealed envelope, committed on its own.
Moved(q) ==
  IF req[q].moves THEN [row[req[q].inst] EXCEPT !.host = req[q].host] ELSE row[req[q].inst]

WriteUpdate(q) ==
  LET i == req[q].inst IN
  /\ req[q] # NoRequest
  /\ req[q].enters => edits < MaxEdits
  /\ req' = [req EXCEPT ![q] = NoRequest]
  /\ CASE row[i].state # "live" -> UNCHANGED <<row, exposed, edits>>
       [] row[i].state = "live" /\ req[q].enters ->
            Seal(i, [Moved(q) EXCEPT !.boundTo = req[q].host])
       [] OTHER -> /\ row' = [row EXCEPT ![i] = Moved(q)]
                   /\ UNCHANGED <<exposed, edits>>
  /\ UNCHANGED <<current, pending, minted, server, rot, crashes>>

\* SoftDeleteServiceInstance: the row keeps its envelope for ever.
DeleteService(i) ==
  /\ server.up /\ row[i].state = "live"
  /\ row' = [row EXCEPT ![i].state = "deleted"]
  /\ UNCHANGED <<current, pending, minted, server, req, rot, exposed, edits, crashes>>
------------------------------------------------------------------------------
(* The rotation.                                                             *)

Enter(at) == [rot EXCEPT !.at = at, !.after = 0]

RotOnly == UNCHANGED <<row, current, pending, minted, server, req, exposed, edits, crashes>>

\* runKeyRotate and prepareRotation: resume from the pending key, or make one.
StartRotation ==
  /\ rot = Idle /\ pending.file # "torn"
  /\ pending.file = "absent" => minted < MaxKeys
  /\ rot' = [Idle EXCEPT !.at = IF pending.file = "key" THEN "rewrap" ELSE "create",
                         !.old = current, !.new = pending.key]
  /\ RotOnly

\* writeSecretFile: O_EXCL, then the content.
CreateNewKey ==
  /\ rot.at = "create"
  /\ pending' = [file |-> "torn", key |-> Legacy]
  /\ rot' = Enter("fill")
  /\ UNCHANGED <<row, current, minted, server, req, exposed, edits, crashes>>

WriteNewKey ==
  /\ rot.at = "fill"
  /\ minted' = minted + 1
  /\ pending' = [file |-> "key", key |-> minted + 1]
  /\ rot' = [Enter("rewrap") EXCEPT !.new = minted + 1]
  /\ UNCHANGED <<row, current, server, req, exposed, edits, crashes>>

Rewrapped(i) == [row[i] EXCEPT !.id = rot.new, !.by = rot.new]

\* One page of rewrapOnePass: read, and re-wrap what is not at the new id. A row
\* that no key of the ring opens ends the command.
ReadPage(page) ==
  LET work == {i \in page : row[i].id # rot.new}
      opens == \A i \in work : Unwraps(Ring(rot.old, rot.new), row[i])
  IN /\ rot.at = "rewrap" /\ IsPage(page, rot.after)
     /\ \/ page = {} /\ rot' = Enter("count")
        \/ ~opens /\ rot' = Idle
        \/ opens /\ \E last \in Rows :
             /\ IsLast(last, page)
             /\ rot' = [rot EXCEPT !.at = "write", !.after = last,
                                  !.batch = [i \in work |-> Rewrapped(i)]]
     /\ RotOnly

\* RewrapCredentialsIncludingDeleted: the envelopes made from the rows as they were.
WritePage ==
  /\ rot.at = "write"
  /\ row' = [i \in Rows |->
       IF i \notin DOMAIN rot.batch THEN row[i]
       ELSE LET b == rot.batch[i] IN
            [row[i] EXCEPT !.id = b.id, !.by = b.by, !.boundTo = b.boundTo]]
  /\ exposed' = exposed \ DOMAIN rot.batch
  /\ rot' = [rot EXCEPT !.at = "rewrap", !.batch = Idle.batch]
  /\ UNCHANGED <<current, pending, minted, server, req, edits, crashes>>

\* The passes are over: promote what was verified, or go over the rows again.
CountRemaining ==
  /\ rot.at = "count"
  /\ rot' = IF \A i \in Envelopes(0) : row[i].id = rot.new THEN Enter("verify")
             ELSE IF rot.pass >= ExtraPasses THEN Idle
             ELSE [Enter("rewrap") EXCEPT !.pass = @ + 1]
  /\ RotOnly

Verifies(i) == row[i].id = rot.new /\ Unwraps(Ring(rot.old, rot.new), row[i])

VerifyPage(page) ==
  /\ rot.at = "verify" /\ IsPage(page, rot.after)
  /\ \/ page = {} /\ rot' = Enter("promote") /\ exposed' = exposed
     \/ ~(\A i \in page : Verifies(i)) /\ rot' = Idle /\ exposed' = exposed
     \/ /\ \A i \in page : Verifies(i)
        /\ \E last \in Rows : IsLast(last, page) /\ rot' = [rot EXCEPT !.after = last]
        /\ exposed' = exposed \ page
  /\ UNCHANGED <<row, current, pending, minted, server, req, edits, crashes>>

\* A promotion that refuses to replace a file, as link(2) does for the salt.
PromoteByLink ==
  /\ rot.at = "promote"
  /\ rot' = Idle
  /\ RotOnly

\* PromoteNewSecretKey: the rename. The old key is gone with it.
Promote ==
  /\ rot.at = "promote"
  /\ current' = pending.key /\ pending' = Absent
  /\ rot' = Idle
  /\ UNCHANGED <<row, minted, server, req, exposed, edits, crashes>>

\* Killed, out of disk, a database error: the command ends where it is.
EndRotation ==
  /\ rot # Idle /\ crashes < MaxCrashes
  /\ rot' = Idle /\ crashes' = crashes + 1
  /\ UNCHANGED <<row, current, pending, minted, server, req, exposed, edits>>

\* The operator removes a key file the startup says cannot be read.
RemoveTorn ==
  /\ pending.file = "torn" /\ rot = Idle
  /\ pending' = Absent
  /\ UNCHANGED <<row, current, minted, server, req, rot, exposed, edits, crashes>>
------------------------------------------------------------------------------
\* An install whose rows were sealed before ids were derived from the key, one of
\* them deleted since.
CredentialsInit ==
  /\ current = 1 /\ minted = 1 /\ pending = Absent
  /\ row \in [Rows -> {NoRow} \cup
       {[NoRow EXCEPT !.state = s, !.by = 1] : s \in {"live", "deleted"}}]
  /\ server = Down
  /\ req = [q \in Requests |-> NoRequest]
  /\ rot = Idle
  /\ exposed = {}
  /\ edits = 0 /\ crashes = 0

Serve ==
  \/ StartServer \/ StopServer
  \/ \E i \in Rows : DeleteService(i) \/ \E h \in Hosts : CreateService(i, h)
  \/ \E q \in Requests :
       \/ WriteUpdate(q)
       \/ \E i \in Rows, h \in Hosts, moves, enters \in BOOLEAN :
            ReadForUpdate(q, i, moves, h, enters)

RotateStep ==
  \/ StartRotation \/ CreateNewKey \/ WriteNewKey
  \/ WritePage \/ CountRemaining \/ Promote
  \/ \E page \in SUBSET Rows : ReadPage(page) \/ VerifyPage(page)

CredentialsNext == Serve \/ RotateStep \/ EndRotation \/ RemoveTorn

\* The command runs, and the operator re-runs it while a pending key is left behind.
CredentialsFairness ==
  /\ WF_credentialsVars((rot # Idle \/ pending.file = "key") /\ RotateStep)
  /\ WF_credentialsVars(RemoveTorn)

CredentialsSpec == CredentialsInit /\ [][CredentialsNext]_credentialsVars /\ CredentialsFairness
------------------------------------------------------------------------------

\* Whatever is killed and whenever, the key files open every stored credential, the
\* deleted ones too, except one a server sealed under the old key after the rotation
\* had verified its row or promoted.
RowsOpenable == \A i \in Rows : Stored(i) /\ i \notin exposed => Unwraps(OnDisk, row[i])

\* A row no key on disk opens. Once deleted it cannot be entered again.
Stranded(i) == Stored(i) /\ ~Unwraps(OnDisk, row[i])

\* A pending key does not stay pending: the command, run again, comes to its end, unless
\* a row is stranded, which every run stops at.
RotationFinishes ==
  pending.file = "key" ~> (pending.file # "key" \/ \E i \in Rows : Stranded(i))
==============================================================================
