--------------------------- MODULE WorkspaceFiles ---------------------------
(***************************************************************************)
(* Editing a workspace folder: the page's NativeFilesClient (browser/      *)
(* workspace-files.ts) and the host's FileOwner and FileService            *)
(* (morphir-workbench-native, bridge/files.mbt, workspace/transfer.mbt),   *)
(* for one folder that the user may open several times.  The host handles  *)
(* a request in one step, the folder picker and a commit apart: a commit   *)
(* holds the host, which does nothing else, while its edit of the folder   *)
(* (FolderEdit) goes on file by file.  Requests are never lost, but may be *)
(* late, so a request that timed out may still be handled, and out of      *)
(* order.  Any program may write the folder.                               *)
(*                                                                         *)
(* A ticket of the picker names the grant it ends in.  Sizes are a number  *)
(* of chunks.  The client issues one commit for a sequence, so that the    *)
(* repeated one that transfer.mbt:250-252 answers never comes.             *)
(***************************************************************************)
EXTENDS Naturals, Sequences, FiniteSets, FolderEdit

CONSTANTS
  Drafts,     \* inventories that the page saves
  Original,   \* the inventory at first
  NoContent,  \* no inventory
  Chunks,     \* chunks in a transfer
  MaxTickets, \* bound: folder selections
  MaxSetbacks \* bound: requests that time out, and cancelPicker calls

ASSUME ContentsAssumption ==
  /\ Drafts \cup {Original} \subseteq Inventories
  /\ NoContent \notin Inventories

ASSUME BoundsAssumption ==
  /\ Chunks \in Nat \ {0}
  /\ MaxTickets \in Nat
  /\ MaxSetbacks \in Nat

Tickets == 1..MaxTickets

VARIABLES
  open,     \* the host has the session and its FileService
  service,  \* the picker: [next, picker, dialogs]
  grant,    \* ticket -> FileGrant of the host, or NoGrant
  net,      \* requests on their way to the host
  disposed, \* the page disposed of its client
  chooser,  \* the client's choose(): [at, attempt, stale, reply, setbacks]
  client,   \* ticket -> the client's Grant and the call in progress on it
  saves     \* draft -> its save: [result, revision, base, reached, confirmed]

host == <<disk, aside, recovery, edit, open, service, grant>>
vars == <<host, net, disposed, chooser, client, saves>>

-----------------------------------------------------------------------------
(* Values.                                                                 *)
NoGrant == [held |-> FALSE]
NoTicket == 0

Idle == [kind |-> "Idle"]
Download(n, content, offset) ==
  [kind |-> "Download", sequence |-> n, content |-> content, offset |-> offset]
Upload(n, chunks) == [kind |-> "Upload", sequence |-> n, chunks |-> chunks]
Committed(n, revision) ==
  [kind |-> "Committed", sequence |-> n, revision |-> revision]
Failed(n, effect) == [kind |-> "Failed", sequence |-> n, effect |-> effect]

NewGrant ==
  [held |-> TRUE, baseline |-> NoContent, revision |-> 0, retired |-> 0,
   transfer |-> Idle]

(* Replies, and what the client makes of none in time.                     *)
NoReply == [is |-> "None"]
Done == [is |-> "Ok"]
Refused(effect) == [is |-> "Error", effect |-> effect]
TimedOut == Refused("unknown")

(* Requests: of the chooser, which carry its attempt, and of a grant.      *)
Ask(op, attempt) == [op |-> op, attempt |-> attempt]
Request(op, g, n) == [op |-> op, grant |-> g, sequence |-> n]
ReadRequest(g, n, offset) ==
  [op |-> "Read", grant |-> g, sequence |-> n, offset |-> offset]
BeginRequest(g, n, revision) ==
  [op |-> "BeginEdit", grant |-> g, sequence |-> n, revision |-> revision]
WriteRequest(g, n, offset, draft) ==
  [op |-> "Write", grant |-> g, sequence |-> n, offset |-> offset,
   draft |-> draft]
CloseRequest == [op |-> "CloseSession"]
NoRequest == [op |-> "None"]

NoEntry ==
  [stage |-> "None", awaits |-> NoRequest, reply |-> NoReply, revision |-> 0,
   sequence |-> 0, blocked |-> FALSE, opened |-> 0, error |-> "none",
   draft |-> NoContent, seen |-> NoContent]

Gone == [NoEntry EXCEPT !.stage = "Gone"]

Init ==
  /\ disk = Original
  /\ aside = NothingAside
  /\ recovery = FALSE
  /\ edit = NoEdit
  /\ open = TRUE
  /\ service = [next |-> 0, picker |-> NoTicket, dialogs |-> {}]
  /\ grant = [g \in Tickets |-> NoGrant]
  /\ net = {}
  /\ disposed = FALSE
  /\ chooser = [at |-> "Ready", attempt |-> 0, stale |-> FALSE,
                reply |-> NoReply, setbacks |-> 0]
  /\ client = [g \in Tickets |-> NoEntry]
  /\ saves = [d \in Drafts |->
                [result |-> "Unsaved", revision |-> 0, base |-> NoContent,
                 reached |-> FALSE, confirmed |-> 0]]

-----------------------------------------------------------------------------
(* The host: FileOwner.request and the handlers of FileService.            *)
Awaited(m) ==
  /\ client[m.grant].awaits = m
  /\ client[m.grant].reply = NoReply

(* The request is handled; the reply is for whoever still waits for it.    *)
Answer(m, r) ==
  /\ net' = net \ {m}
  /\ client' = IF Awaited(m) THEN [client EXCEPT ![m.grant].reply = r]
                             ELSE client
  /\ UNCHANGED <<disposed, chooser, saves>>

Replaceable(transfer) ==
  \/ transfer.kind \in {"Idle", "Committed"}
  \/ transfer.kind = "Failed" /\ transfer.effect = "none"

IsActive(transfer, kind, n) ==
  /\ transfer.kind = kind
  /\ transfer.sequence = n

(* The guards of FileService.request.                                      *)
AcceptsSnapshot(held, m) ==
  /\ m.sequence > held.retired
  /\ held.transfer.kind \in {"Idle", "Committed", "Failed"}

AcceptsRead(held, m) ==
  /\ IsActive(held.transfer, "Download", m.sequence)
  /\ m.offset = held.transfer.offset
  /\ m.offset < Chunks

AcceptsBegin(held, m) ==
  /\ m.sequence > held.retired
  /\ m.revision = held.revision
  /\ held.baseline # NoContent
  /\ Replaceable(held.transfer)

AcceptsWrite(held, m) ==
  /\ IsActive(held.transfer, "Upload", m.sequence)
  /\ m.offset = Len(held.transfer.chunks)
  /\ m.offset < Chunks

AcceptsCommit(held, m) ==
  /\ IsActive(held.transfer, "Upload", m.sequence)
  /\ Len(held.transfer.chunks) = Chunks
  /\ held.baseline # NoContent

AcceptsStatus(held, m) ==
  IF held.transfer.kind = "Idle" THEN m.sequence = held.retired
                                 ELSE m.sequence = held.transfer.sequence

(* Fault: without the guard of transfer.mbt:336.                           *)
AcceptsAnyRelease(held, m) == m.sequence > 0

AcceptsRelease(held, m) == m.sequence >= held.retired

Accepts(m) ==
  LET held == grant[m.grant] IN
  /\ open
  /\ \/ m.op \in {"CheckSession", "Revoke"}
     \/ /\ held.held
        /\ \/ m.op = "Snapshot" /\ AcceptsSnapshot(held, m)
           \/ m.op = "Read" /\ AcceptsRead(held, m)
           \/ m.op = "BeginEdit" /\ AcceptsBegin(held, m)
           \/ m.op = "Write" /\ AcceptsWrite(held, m)
           \/ m.op = "Commit" /\ AcceptsCommit(held, m)
           \/ m.op = "Status" /\ AcceptsStatus(held, m)
           \/ m.op = "Release" /\ AcceptsRelease(held, m)

OfGrant(m) == "grant" \in DOMAIN m

(* A guard fails: the session, the grant, the sequence or the state.       *)
Refuse(m) ==
  /\ ~Accepts(m)
  /\ Answer(m, Refused("none"))
  /\ UNCHANGED host

HandleCheck(m) ==
  /\ m.op = "CheckSession" /\ Accepts(m)
  /\ Answer(m, Done)
  /\ UNCHANGED host

HandleRevoke(m) ==
  /\ m.op = "Revoke" /\ Accepts(m)
  /\ grant' = [grant EXCEPT ![m.grant] = NoGrant]
  /\ Answer(m, Done)
  /\ UNCHANGED <<folder, open, service>>

(* root.snapshot() raises: the folder has a lock, is changing or is too    *)
(* large.                                                                  *)
SnapshotFails(m) ==
  /\ m.op = "Snapshot" /\ Accepts(m)
  /\ Answer(m, Refused("none"))
  /\ UNCHANGED host

(* It cannot remove its own lock.                                          *)
SnapshotUncertain(m) ==
  /\ m.op = "Snapshot" /\ Accepts(m) /\ ~recovery
  /\ Answer(m, Refused("unknown"))
  /\ recovery' \in BOOLEAN
  /\ UNCHANGED <<disk, aside, edit, open, service, grant>>

HandleSnapshot(m) ==
  /\ m.op = "Snapshot" /\ Accepts(m) /\ ~recovery
  /\ LET revision == grant[m.grant].revision + 1 IN
     /\ \E content \in Readable :
          grant' = [grant EXCEPT ![m.grant] =
                      [held |-> TRUE, baseline |-> content,
                       revision |-> revision, retired |-> m.sequence,
                       transfer |-> Download(m.sequence, content, 0)]]
     /\ Answer(m, [is |-> "Ok", revision |-> revision])
  /\ UNCHANGED <<folder, open, service>>

HandleRead(m) ==
  /\ m.op = "Read" /\ Accepts(m)
  /\ grant' = [grant EXCEPT ![m.grant].transfer.offset = m.offset + 1]
  /\ Answer(m, [is |-> "Ok", content |-> grant[m.grant].transfer.content])
  /\ UNCHANGED <<folder, open, service>>

HandleBegin(m) ==
  /\ m.op = "BeginEdit" /\ Accepts(m)
  /\ grant' = [grant EXCEPT ![m.grant].retired = m.sequence,
                            ![m.grant].transfer = Upload(m.sequence, <<>>)]
  /\ Answer(m, Done)
  /\ UNCHANGED <<folder, open, service>>

HandleWrite(m) ==
  /\ m.op = "Write" /\ Accepts(m)
  /\ grant' = [grant EXCEPT ![m.grant].transfer.chunks = Append(@, m.draft)]
  /\ Answer(m, Done)
  /\ UNCHANGED <<folder, open, service>>

HandleStatus(m) ==
  LET transfer == grant[m.grant].transfer IN
  /\ m.op = "Status" /\ Accepts(m)
  /\ Answer(m,
       CASE transfer.kind = "Committed" ->
              [is |-> "Ok", state |-> "committed",
               revision |-> transfer.revision]
         [] transfer.kind = "Failed" ->
              [is |-> "Ok", state |-> "failed", effect |-> transfer.effect]
         [] OTHER -> [is |-> "Ok", state |-> "other"])
  /\ UNCHANGED host

(* "A late release cannot retire a newer transfer."                        *)
HandleRelease(m) ==
  /\ m.op = "Release" /\ Accepts(m)
  /\ grant' = [grant EXCEPT ![m.grant].retired = m.sequence,
                            ![m.grant].transfer =
                               IF @.kind = "Failed" /\ @.effect = "unknown"
                               THEN @ ELSE Idle]
  /\ Answer(m, Done)
  /\ UNCHANGED <<folder, open, service>>

-----------------------------------------------------------------------------
(* Commit.                                                                 *)
Uploaded(g) == grant[g].transfer.chunks[1]

StartCommit(m) ==
  /\ m.op = "Commit" /\ Accepts(m)
  /\ edit' = NewEdit(m, grant[m.grant].baseline, Uploaded(m.grant))
  /\ UNCHANGED <<disk, aside, recovery, open, service, grant>>
  /\ UNCHANGED <<net, disposed, chooser, client, saves>>

(* The commit is handled; the host takes the next request.                 *)
CommitEnds(r) ==
  LET m == edit.request IN
  /\ edit' = NoEdit
  /\ net' = net \ {m}
  /\ client' = IF Awaited(m) THEN [client EXCEPT ![m.grant].reply = r]
                             ELSE client
  /\ UNCHANGED <<disk, aside, open, service, disposed, chooser>>

CommitFails(effect) ==
  LET m == edit.request IN
  /\ CommitEnds(Refused(effect))
  /\ grant' = [grant EXCEPT ![m.grant].transfer = Failed(m.sequence, effect)]
  /\ saves' = [saves EXCEPT ![edit.new].reached = (edit.changed # {})]

CommitDenied == EndsRejected /\ CommitFails("none")

CommitUncertain == EndsUncertain /\ CommitFails("unknown")

Save ==
  LET m == edit.request
      revision == grant[m.grant].revision + 1
  IN
  /\ EndsSaved
  /\ CommitEnds([is |-> "Ok", revision |-> revision])
  /\ grant' = [grant EXCEPT ![m.grant] =
                 [held |-> TRUE, baseline |-> edit.new, revision |-> revision,
                  retired |-> @.retired,
                  transfer |-> Committed(m.sequence, revision)]]
  /\ saves' = [saves EXCEPT ![edit.new].reached = TRUE,
                            ![edit.new].confirmed = revision]

-----------------------------------------------------------------------------
(* The picker and the session.                                             *)
OfChooser(m) == "attempt" \in DOMAIN m

AnswerChooser(op, attempt, r) ==
  /\ chooser' = IF chooser.at = op /\ chooser.attempt = attempt /\
                   chooser.reply = NoReply
                THEN [chooser EXCEPT !.reply = r] ELSE chooser
  /\ UNCHANGED <<folder, open, disposed, client, saves>>

HandleChooserCheck(m) ==
  /\ m.op = "CheckSession"
  /\ net' = net \ {m}
  /\ AnswerChooser(m.op, m.attempt, IF open THEN Done ELSE Refused("none"))
  /\ UNCHANGED <<service, grant>>

MayChoose == open /\ service.picker = NoTicket

(* begin_choose; the dialog is open until EndDialog.                       *)
BeginChoose(m) ==
  /\ m.op = "ChooseWrite" /\ MayChoose
  /\ LET ticket == service.next + 1 IN
     service' = [next |-> ticket, picker |-> ticket,
                 dialogs |-> service.dialogs \cup
                               {[ticket |-> ticket, attempt |-> m.attempt]}]
  /\ net' = net \ {m}
  /\ UNCHANGED <<folder, open, grant, disposed, chooser, client, saves>>

RefuseChoose(m) ==
  /\ m.op = "ChooseWrite" /\ ~MayChoose
  /\ net' = net \ {m}
  /\ AnswerChooser(m.op, m.attempt, Refused("none"))
  /\ UNCHANGED <<service, grant>>

(* cancel_choose without a ticket: whatever picker is open.                *)
HandleCancelPicker(m) ==
  /\ m.op = "CancelPicker"
  /\ net' = net \ {m}
  /\ service' = IF open THEN [service EXCEPT !.picker = NoTicket] ELSE service
  /\ UNCHANGED <<folder, open, grant, disposed, chooser, client, saves>>

CloseDialog(x, r) ==
  /\ service' = [service EXCEPT !.dialogs = @ \ {x},
                                !.picker = IF @ = x.ticket THEN NoTicket ELSE @]
  /\ AnswerChooser("ChooseWrite", x.attempt, r)
  /\ UNCHANGED net

IsCurrent(x) == open /\ service.picker = x.ticket

(* finish_choose for a folder.                                             *)
Choose(x) ==
  /\ IsCurrent(x)
  /\ grant' = [grant EXCEPT ![x.ticket] = NewGrant]
  /\ CloseDialog(x, [is |-> "Ok", ticket |-> x.ticket])

(* The user dismisses the dialog, or the selection is refused: the folder  *)
(* cannot be opened, the picker was cancelled or the session has ended.    *)
Dismiss(x) ==
  /\ CloseDialog(x, IF IsCurrent(x) THEN [is |-> "Ok", ticket |-> NoTicket]
                                    ELSE Refused("none"))
  /\ UNCHANGED grant

CannotOpen(x) ==
  /\ IsCurrent(x)
  /\ CloseDialog(x, Refused("none"))
  /\ UNCHANGED grant

CloseService ==
  /\ open' = FALSE
  /\ grant' = [g \in Tickets |-> NoGrant]
  /\ service' = [service EXCEPT !.picker = NoTicket]
  /\ UNCHANGED <<folder, disposed, chooser, client, saves>>

HandleClose ==
  /\ CloseRequest \in net
  /\ open
  /\ net' = net \ {CloseRequest}
  /\ CloseService

(* FileOwner::revoke: the page navigates away, or the host shuts down.     *)
RevokeSession ==
  /\ open
  /\ CloseService
  /\ UNCHANGED net

(* Only the thread that runs a commit edits the folder, and no other       *)
(* handler runs meanwhile.                                                 *)
HandleNext ==
  \/ \E m \in net :
       /\ OfGrant(m)
       /\ \/ Refuse(m) \/ HandleCheck(m) \/ HandleRevoke(m)
          \/ SnapshotFails(m) \/ SnapshotUncertain(m) \/ HandleSnapshot(m)
          \/ HandleRead(m) \/ HandleBegin(m) \/ HandleWrite(m)
          \/ HandleStatus(m) \/ HandleRelease(m) \/ StartCommit(m)
  \/ \E m \in net :
       /\ OfChooser(m)
       /\ \/ HandleChooserCheck(m) \/ BeginChoose(m) \/ RefuseChoose(m)
          \/ HandleCancelPicker(m)
  \/ \E x \in service.dialogs : Choose(x) \/ Dismiss(x) \/ CannotOpen(x)
  \/ HandleClose
  \/ RevokeSession

FolderStep ==
  /\ EditStep \/ WriteOutside
  /\ UNCHANGED <<open, service, grant, net, disposed, chooser, client, saves>>

HostStep ==
  \/ ~Editing /\ HandleNext
  \/ FolderStep
  \/ Editing /\ (CommitDenied \/ CommitUncertain \/ Save)

-----------------------------------------------------------------------------
(* The client: one call at a time on a grant.  A step takes the reply to   *)
(* the request that the call awaits and sends the next one.                *)
Awaits(g, op) ==
  /\ client[g].awaits.op = op
  /\ client[g].reply # NoReply

Succeeded(g) == client[g].reply.is = "Ok"
Erred(g) == client[g].reply.is = "Error"

(* The entry of the grant becomes `entry`, which awaits `m`.               *)
Sends(g, entry, m) ==
  /\ client' = [client EXCEPT ![g] =
                  [entry EXCEPT !.awaits = m, !.reply = NoReply]]
  /\ net' = net \cup {m}

Rests(g, entry) ==
  /\ client' = [client EXCEPT ![g] =
                  [entry EXCEPT !.awaits = NoRequest, !.reply = NoReply,
                                !.opened = 0, !.error = "none",
                                !.draft = NoContent]]
  /\ UNCHANGED net

(* No answer in time, whether or not the request was or will be handled.   *)
Timeout(g) ==
  /\ client[g].awaits # NoRequest
  /\ client[g].reply # TimedOut
  /\ client' = [client EXCEPT ![g].reply = TimedOut]
  /\ chooser.setbacks < MaxSetbacks
  /\ chooser' = [chooser EXCEPT !.setbacks = @ + 1]
  /\ UNCHANGED <<host, net, disposed, saves>>

(* choose().                                                               *)
ChooserGoes(at) == chooser' = [chooser EXCEPT !.at = at, !.reply = NoReply]

Choosing(at) == chooser.at = at /\ chooser.reply # NoReply

CallChoose ==
  /\ ~disposed
  /\ chooser.at = "Ready"
  /\ chooser.attempt < MaxTickets
  /\ chooser' = [chooser EXCEPT !.at = "CheckSession", !.stale = FALSE,
                                !.attempt = @ + 1]
  /\ net' = net \cup {Ask("CheckSession", chooser.attempt + 1)}
  /\ UNCHANGED <<host, disposed, client, saves>>

ChooserTimeout ==
  /\ chooser.at = "CheckSession"
  /\ chooser.reply # TimedOut
  /\ chooser.setbacks < MaxSetbacks
  /\ chooser' = [chooser EXCEPT !.reply = TimedOut, !.setbacks = @ + 1]
  /\ UNCHANGED <<host, net, disposed, client, saves>>

ChooserChecked ==
  /\ Choosing("CheckSession")
  /\ IF chooser.reply = Done /\ ~chooser.stale
     THEN /\ ChooserGoes("ChooseWrite")
          /\ net' = net \cup {Ask("ChooseWrite", chooser.attempt)}
     ELSE ChooserGoes("Ready") /\ UNCHANGED net
  /\ UNCHANGED <<host, disposed, client, saves>>

NothingChosen ==
  /\ Choosing("ChooseWrite")
  /\ (chooser.reply.is = "Ok") => (chooser.reply.ticket = NoTicket)
  /\ ChooserGoes("Ready")
  /\ UNCHANGED <<host, net, disposed, client, saves>>

(* revoke() of a selection that failed or was cancelled.                   *)
Discard(g, entry) ==
  Sends(g, [entry EXCEPT !.stage = "Discarding", !.blocked = TRUE],
        Request("Revoke", g, 0))

Chosen ==
  /\ Choosing("ChooseWrite")
  /\ chooser.reply.is = "Ok" /\ chooser.reply.ticket # NoTicket
  /\ LET g == chooser.reply.ticket IN
     IF chooser.stale
     THEN Discard(g, client[g])
     ELSE Sends(g, [client[g] EXCEPT !.stage = "Opening", !.sequence = 1],
                Request("Snapshot", g, 1))
  /\ ChooserGoes("Opening")
  /\ UNCHANGED <<host, disposed, saves>>

ReleaseDownload(g, entry) ==
  Sends(g, entry, Request("Release", g, entry.sequence))

SnapshotAnswered(g) ==
  /\ Awaits(g, "Snapshot")
  /\ IF Succeeded(g)
     THEN Sends(g, [client[g] EXCEPT !.opened = client[g].reply.revision],
                ReadRequest(g, client[g].sequence, 0))
     ELSE ReleaseDownload(g, client[g])
  /\ UNCHANGED <<host, disposed, chooser, saves>>

ReadAnswered(g) ==
  LET next == client[g].awaits.offset + 1 IN
  /\ Awaits(g, "Read")
  /\ \/ /\ Succeeded(g) /\ next < Chunks
        /\ Sends(g, client[g], ReadRequest(g, client[g].sequence, next))
     \/ /\ Succeeded(g) /\ next = Chunks
        /\ ReleaseDownload(g, [client[g] EXCEPT
                                 !.revision = client[g].opened,
                                 !.seen = client[g].reply.content])
     \/ /\ Erred(g)
        /\ ReleaseDownload(g, [client[g] EXCEPT !.opened = 0])
  /\ UNCHANGED <<host, disposed, chooser, saves>>

(* The selection ends in an authority, unless a request of it failed or it *)
(* was cancelled.                                                          *)
Opened(g) ==
  /\ client[g].stage = "Opening"
  /\ Awaits(g, "Release")
  /\ IF Succeeded(g) /\ client[g].opened > 0 /\ ~chooser.stale
     THEN /\ Rests(g, [client[g] EXCEPT !.stage = "Ready"])
          /\ ChooserGoes("Ready")
     ELSE /\ Discard(g, client[g])
          /\ UNCHANGED chooser
  /\ UNCHANGED <<host, disposed, saves>>

Discarded(g) ==
  /\ client[g].stage = "Discarding"
  /\ Awaits(g, "Revoke")
  /\ Rests(g, Gone)
  /\ ChooserGoes("Ready")
  /\ UNCHANGED <<host, disposed, saves>>

CancelPicker ==
  /\ ~disposed
  /\ chooser.setbacks < MaxSetbacks
  /\ chooser' = [chooser EXCEPT !.stale = TRUE, !.setbacks = @ + 1]
  /\ net' = net \cup {Ask("CancelPicker", chooser.attempt)}
  /\ UNCHANGED <<host, disposed, client, saves>>

-----------------------------------------------------------------------------
(* save().  A save that waits for the one before it starts when that one   *)
(* has ended.                                                              *)
CallSave(g, d) ==
  /\ client[g].stage = "Ready"
  /\ client[g].awaits = NoRequest
  /\ saves[d].result = "Unsaved"
  /\ IF client[g].blocked
     THEN /\ saves' = [saves EXCEPT ![d].result = "Unknown"]
          /\ UNCHANGED <<client, net>>
     ELSE /\ saves' = [saves EXCEPT ![d].result = "Saving",
                                    ![d].base = client[g].seen]
          /\ LET n == client[g].sequence + 1 IN
             Sends(g, [client[g] EXCEPT !.sequence = n, !.draft = d],
                   Request("CheckSession", g, n))
  /\ UNCHANGED <<host, disposed, chooser>>

(* The save ends with an error, and the grant takes no other.              *)
SaveFails(g, effect) ==
  /\ Rests(g, [client[g] EXCEPT !.blocked = TRUE])
  /\ saves' = [saves EXCEPT ![client[g].draft].result =
                 IF effect = "none" THEN "NotSaved" ELSE "Unknown"]

SaveChecked(g) ==
  /\ client[g].stage \in {"Ready", "Revoking"}
  /\ Awaits(g, "CheckSession") /\ Succeeded(g)
  /\ Sends(g, client[g],
           BeginRequest(g, client[g].sequence, client[g].revision))
  /\ UNCHANGED <<host, disposed, chooser, saves>>

SendChunk(g, offset) ==
  Sends(g, client[g],
        WriteRequest(g, client[g].sequence, offset, client[g].draft))

SaveBegun(g) ==
  /\ Awaits(g, "BeginEdit") /\ Succeeded(g)
  /\ SendChunk(g, 0)
  /\ UNCHANGED <<host, disposed, chooser, saves>>

ChunkWritten(g) ==
  LET next == client[g].awaits.offset + 1 IN
  /\ Awaits(g, "Write") /\ Succeeded(g)
  /\ IF next < Chunks
     THEN SendChunk(g, next)
     ELSE Sends(g, client[g], Request("Commit", g, client[g].sequence))
  /\ UNCHANGED <<host, disposed, chooser, saves>>

UploadFails(g) ==
  /\ \E op \in {"CheckSession", "BeginEdit", "Write"} : Awaits(g, op)
  /\ Erred(g)
  /\ SaveFails(g, client[g].reply.effect)
  /\ UNCHANGED <<host, disposed, chooser>>

(* A confirmed commit; its transfer is released.                           *)
Confirm(g, revision) ==
  IF revision # client[g].revision + 1
  THEN SaveFails(g, "unknown")
  ELSE /\ Sends(g, [client[g] EXCEPT !.revision = revision,
                                     !.seen = client[g].draft],
                Request("Release", g, client[g].sequence))
       /\ UNCHANGED saves

(* "Query this exact sequence", never commit again.                        *)
CommitAnswered(g) ==
  /\ Awaits(g, "Commit")
  /\ IF Succeeded(g)
     THEN Confirm(g, client[g].reply.revision)
     ELSE /\ Sends(g, [client[g] EXCEPT !.error = client[g].reply.effect],
                   Request("Status", g, client[g].sequence))
          /\ UNCHANGED saves
  /\ UNCHANGED <<host, disposed, chooser>>

(* Fault: an upload in progress is taken for no save.                      *)
StatusTaken(g) ==
  LET reply == client[g].reply IN
  /\ Awaits(g, "Status")
  /\ \/ Erred(g) /\ SaveFails(g, reply.effect)
     \/ /\ Succeeded(g)
        /\ IF reply.state = "committed" THEN Confirm(g, reply.revision)
                                        ELSE SaveFails(g, "none")
  /\ UNCHANGED <<host, disposed, chooser>>

StatusAnswered(g) ==
  LET reply == client[g].reply IN
  /\ Awaits(g, "Status")
  /\ \/ Erred(g) /\ SaveFails(g, reply.effect)
     \/ /\ Succeeded(g) /\ reply.state = "committed"
        /\ Confirm(g, reply.revision)
     \/ /\ Succeeded(g) /\ reply.state = "failed"
        /\ SaveFails(g, reply.effect)
     \/ /\ Succeeded(g) /\ reply.state = "other"
        /\ SaveFails(g, client[g].error)
  /\ UNCHANGED <<host, disposed, chooser>>

(* "Cleanup cannot undo a confirmed commit": with any reply to the release.*)
SaveReleased(g) ==
  /\ client[g].stage \in {"Ready", "Revoking"}
  /\ Awaits(g, "Release")
  /\ saves' = [saves EXCEPT ![client[g].draft].result = "Saved",
                            ![client[g].draft].revision = client[g].revision]
  /\ Rests(g, client[g])
  /\ UNCHANGED <<host, disposed, chooser>>

-----------------------------------------------------------------------------
(* revoke() by the page: it waits for the save in progress.                *)
CallRevoke(g) ==
  /\ client[g].stage = "Ready"
  /\ client' = [client EXCEPT ![g].stage = "Revoking", ![g].blocked = TRUE]
  /\ UNCHANGED <<host, net, disposed, chooser, saves>>

SendRevoke(g) ==
  /\ client[g].stage = "Revoking"
  /\ client[g].awaits = NoRequest
  /\ Sends(g, client[g], Request("Revoke", g, 0))
  /\ UNCHANGED <<host, disposed, chooser, saves>>

Revoked(g) ==
  /\ client[g].stage = "Revoking"
  /\ Awaits(g, "Revoke")
  /\ Rests(g, IF Succeeded(g) THEN Gone
              ELSE [client[g] EXCEPT !.stage = "Ready"])
  /\ UNCHANGED <<host, disposed, chooser, saves>>

(* The saves in progress fail, except those whose commit is confirmed.     *)
Dispose ==
  /\ ~disposed
  /\ disposed' = TRUE
  /\ net' = net \cup {CloseRequest}
  /\ chooser' = [chooser EXCEPT !.at = "Ready", !.reply = NoReply]
  /\ client' = [g \in Tickets |-> Gone]
  /\ saves' = [d \in Drafts |->
       IF saves[d].result # "Saving" THEN saves[d]
       ELSE LET g == CHOOSE g \in Tickets : client[g].draft = d IN
            IF client[g].awaits.op = "Release"
            THEN [saves[d] EXCEPT !.result = "Saved",
                                  !.revision = client[g].revision]
            ELSE [saves[d] EXCEPT !.result = "Unknown"]]
  /\ UNCHANGED host

ClientStep ==
  \/ CallChoose \/ ChooserTimeout \/ ChooserChecked \/ NothingChosen \/ Chosen
  \/ CancelPicker
  \/ Dispose
  \/ \E g \in Tickets :
       \/ Timeout(g)
       \/ SnapshotAnswered(g) \/ ReadAnswered(g) \/ Opened(g) \/ Discarded(g)
       \/ \E d \in Drafts : CallSave(g, d)
       \/ SaveChecked(g) \/ SaveBegun(g) \/ ChunkWritten(g) \/ UploadFails(g)
       \/ CommitAnswered(g) \/ StatusAnswered(g) \/ SaveReleased(g)
       \/ CallRevoke(g) \/ SendRevoke(g) \/ Revoked(g)

Next == HostStep \/ ClientStep

Spec == Init /\ [][Next]_vars

-----------------------------------------------------------------------------
(* Properties.                                                             *)

(* An upload holds chunks of one draft only, and sequences only grow.      *)
FilesTypeOK ==
  /\ disk \in Inventories /\ aside \in Inventories
  /\ recovery \in BOOLEAN /\ open \in BOOLEAN /\ disposed \in BOOLEAN
  /\ service.next \in 0..MaxTickets
  /\ service.picker \in 0..service.next
  /\ \A g \in Tickets :
       LET held == grant[g] IN
       held.held =>
         /\ open
         /\ client[g].stage = "Gone" \/ held.retired <= client[g].sequence
         /\ held.transfer.kind = "Upload" =>
              /\ Len(held.transfer.chunks) <= Chunks
              /\ \A i \in 1..Len(held.transfer.chunks) :
                   held.transfer.chunks[i] = held.transfer.chunks[1]

(* Until a save on it fails, the client and the host agree about a grant   *)
(* whatever requests are late: between saves on its revision, on the       *)
(* inventory of that revision and on a transfer that a new one may         *)
(* replace; during a save on how far the upload is.  A late release does   *)
(* not touch the transfer that followed it (transfer.mbt:334).             *)
InStep ==
  \A g \in Tickets :
    LET page == client[g]
        held == grant[g]
    IN
    (open /\ page.stage = "Ready" /\ ~page.blocked) =>
      /\ held.held
      /\ page.awaits = NoRequest =>
           /\ held.revision = page.revision
           /\ held.baseline = page.seen
           /\ Replaceable(held.transfer)
           /\ held.retired <= page.sequence
      /\ (page.awaits.op = "Write" /\ ~Erred(g)) =>
           /\ IsActive(held.transfer, "Upload", page.sequence)
           /\ Len(held.transfer.chunks) =
                page.awaits.offset + (IF Succeeded(g) THEN 1 ELSE 0)
      /\ (page.awaits.op = "Commit" /\ page.reply = NoReply) =>
           /\ IsActive(held.transfer, "Upload", page.sequence)
           /\ Len(held.transfer.chunks) = Chunks

(* Between commits nothing is in the lock directory, unless the lock that  *)
(* was left tells of it.                                                   *)
BackupsTold == (~Editing /\ ~recovery) => aside = NothingAside

FilesInv == FilesTypeOK /\ InStep /\ BackupsTold

(* A save that returns a revision was confirmed by the host under that     *)
(* revision, after it had read the whole draft back, and a save that fails *)
(* with no effect leaves nothing of its edit in the folder, whatever was   *)
(* rolled back, then or by a commit handled later, while the host has the  *)
(* session.  (Without it, files.mbt:106 refuses the status query of        *)
(* workspace-files.ts:120 with effect none even after the commit.)         *)
ReportsAreTrue ==
  \A d \in Drafts :
    /\ saves[d].result = "Saved" => saves[d].confirmed = saves[d].revision
    /\ (saves[d].result = "NotSaved" /\ open) => ~saves[d].reached

(* An edit destroys no version of a file but the one that the page saw and *)
(* the one that it has installed itself: what another program writes, at   *)
(* whatever step of the comparison, the edit or its rollback, stays in the *)
(* folder or in the lock directory.  The two calls of filesystem.c:466 are *)
(* exempt: the rollback unlinks by name what it has checked before.        *)
Destroys(f) == {disk[f], aside[f]} \ {disk'[f], aside'[f], Absent}

NoLostUpdate ==
  [][(Editing /\ edit' # edit) =>
       \A f \in Files \ edit.checked :
         Destroys(f) \subseteq {saves[edit.new].base[f], edit.new[f]}]_vars
=============================================================================
