------------------------ MODULE WorkspaceFiles_proofs ------------------------
(***************************************************************************)
(* Theorems about WorkspaceFiles and its FolderEdit: one folder with any   *)
(* files, opened any number of times, with any drafts, any writes of other *)
(* programs between any two steps of an edit, any number of chunks and any *)
(* number of requests that time out or picker calls that are cancelled.    *)
(***************************************************************************)
EXTENDS WorkspaceFiles, SequenceTheorems, TLAPS

-----------------------------------------------------------------------------
(* The values.                                                             *)

Stages    == {"None", "Opening", "Discarding", "Ready", "Revoking", "Gone"}
Effects   == {"none", "unknown"}
SaveOps   == {"CheckSession", "BeginEdit", "Write", "Commit", "Status", "Release"}
Inventory == Inventories \cup {NoContent}

Plain ==
  [op : {"Snapshot", "Release", "Revoke", "CheckSession", "Commit", "Status"},
   grant : Tickets, sequence : Nat]
Reads  == [op : {"Read"}, grant : Tickets, sequence : Nat, offset : Nat]
Begins == [op : {"BeginEdit"}, grant : Tickets, sequence : Nat, revision : Nat]
Writes == [op : {"Write"}, grant : Tickets, sequence : Nat, offset : Nat, draft : Drafts]
Requests == Plain \cup Reads \cup Begins \cup Writes
Asks == [op : {"CheckSession", "ChooseWrite", "CancelPicker"}, attempt : Nat]

Statuses ==
  [is : {"Ok"}, state : {"committed"}, revision : Nat]
  \cup [is : {"Ok"}, state : {"failed"}, effect : Effects]
  \cup [is : {"Ok"}, state : {"other"}]
Replies ==
  {NoReply, Done} \cup [is : {"Error"}, effect : Effects]
  \cup [is : {"Ok"}, revision : Nat] \cup [is : {"Ok"}, content : Inventories]
  \cup Statuses
Choices == {NoReply, Done} \cup [is : {"Error"}, effect : Effects]
           \cup [is : {"Ok"}, ticket : 0..MaxTickets]

Transfers ==
  {Idle}
  \cup [kind : {"Download"}, sequence : Nat, content : Inventories, offset : Nat]
  \cup [kind : {"Upload"}, sequence : Nat, chunks : Seq(Drafts)]
  \cup [kind : {"Committed"}, sequence : Nat, revision : Nat]
  \cup [kind : {"Failed"}, sequence : Nat, effect : Effects]
Grants == [held : {TRUE}, baseline : Inventory, revision : Nat, retired : Nat,
           transfer : Transfers]

Entries ==
  [stage : Stages, awaits : Requests \cup {NoRequest}, reply : Replies,
   revision : Nat, sequence : Nat, blocked : BOOLEAN, opened : Nat,
   error : Effects, draft : Drafts \cup {NoContent}, seen : Inventory]
Results == {"Unsaved", "Saving", "Saved", "NotSaved", "Unknown"}
Records == [result : Results, revision : Nat, base : Inventory, reached : BOOLEAN,
            confirmed : Nat]

HostTypes ==
  /\ open \in BOOLEAN
  /\ service \in [next : Nat, picker : Nat,
                  dialogs : SUBSET [ticket : Tickets, attempt : Nat]]
  /\ service.picker \in 0..service.next
  /\ grant \in [Tickets -> Grants \cup {NoGrant}]
  /\ net \subseteq Requests \cup Asks \cup {CloseRequest}
ClientTypes ==
  /\ disposed \in BOOLEAN
  /\ chooser \in [at : {"Ready", "CheckSession", "ChooseWrite", "Opening"},
                  attempt : 0..MaxTickets, stale : BOOLEAN, reply : Choices,
                  setbacks : Nat]
  /\ client \in [Tickets -> Entries]
  /\ saves \in [Drafts -> Records]
Types == HostTypes /\ ClientTypes

-----------------------------------------------------------------------------
(* The selection of a folder.                                              *)

ForGrant(m, g) == OfGrant(m) /\ m.grant = g

(* Of a grant only these requests are on their way, and late releases.     *)
Only(g, expected, n) ==
  \A m \in net :
    ForGrant(m, g) => m \in expected \/ (m.op = "Release" /\ m.sequence <= n)

Fresh(g) == (\A m \in net : ~ForGrant(m, g)) /\ grant[g] \in {NoGrant, NewGrant}

(* A request of the picker, or its dialog, is of the last attempt, which   *)
(* waits for it unless the client is gone.                                 *)
Waiting == disposed \/ (chooser.at = "ChooseWrite" /\ chooser.reply = NoReply)

PickerInv ==
  /\ service.next <= chooser.attempt
  /\ chooser.at = "CheckSession" => service.next < chooser.attempt
  /\ disposed => chooser.at = "Ready"
  /\ \A m \in net :
       m.op = "ChooseWrite" =>
         /\ Waiting
         /\ m.attempt = chooser.attempt
         /\ service.next < chooser.attempt
         /\ service.dialogs = {}
  /\ \A x \in service.dialogs :
       /\ Waiting
       /\ x.attempt = chooser.attempt
       /\ x.ticket = service.next
  /\ (chooser.at = "ChooseWrite" /\ chooser.reply.is = "Ok") =>
       /\ chooser.reply \in [is : {"Ok"}, ticket : {NoTicket, service.next}]
       /\ chooser.reply.ticket # NoTicket =>
            /\ client[service.next].stage = "None"
            /\ open => grant[service.next].held

Unused(g) ==
  /\ \A m \in net : ~ForGrant(m, g)
  /\ grant[g] = NoGrant
  /\ client[g].stage = "None" \/ disposed

(* A ticket that the client does not hold.                                 *)
TicketInv(g) ==
  LET page == client[g] IN
  /\ page.stage = "None" => page = NoEntry /\ Fresh(g)
  /\ (g > service.next \/ \E x \in service.dialogs : x.ticket = g) => Unused(g)
  /\ page.stage \in {"Opening", "Discarding"} =>
       chooser.at = "Opening" /\ g = service.next
  /\ disposed => page.stage = "Gone"
  /\ grant[g].held => open

-----------------------------------------------------------------------------
(* What the client awaits, by the stage of its entry.                      *)

Saving(g) == client[g].stage \in {"Ready", "Revoking"} /\ client[g].awaits.op \in SaveOps

SaveRequest(g) ==
  LET page == client[g]
      n == page.sequence
      m == page.awaits
  IN
  \/ \E op \in {"CheckSession", "Commit", "Status", "Release"} : m = Request(op, g, n)
  \/ m = BeginRequest(g, n, page.revision)
  \/ m \in Writes /\ m = WriteRequest(g, n, m.offset, page.draft) /\ m.offset < Chunks

AwaitsInv(g) ==
  LET page == client[g]
      m == page.awaits
  IN
  /\ page.stage = "Gone" => m = NoRequest
  /\ page.stage = "Discarding" => m = Request("Revoke", g, 0)
  /\ page.stage = "Opening" =>
       /\ page.sequence = 1
       /\ \/ \E op \in {"Snapshot", "Release"} : m = Request(op, g, 1)
          \/ m \in Reads /\ m = ReadRequest(g, 1, m.offset)
  /\ page.stage \in {"Ready", "Revoking"} =>
       \/ SaveRequest(g) /\ page.draft \in Drafts
       \/ m = NoRequest
       \/ page.stage = "Revoking" /\ m = Request("Revoke", g, 0)
  /\ page.stage = "Revoking" => page.blocked
  /\ ~Saving(g) => page.draft = NoContent

(* The replies to the requests that ask for something.                     *)
ReplyInv(g) ==
  LET page == client[g] IN
  page.reply.is = "Ok" =>
    /\ page.awaits.op \in {"Snapshot", "Commit"} => page.reply \in [is : {"Ok"}, revision : Nat]
    /\ page.awaits.op = "Read" => page.reply \in [is : {"Ok"}, content : Inventories]
    /\ page.awaits.op = "Status" => page.reply \in Statuses

(* Sequences only grow, while the client has the grant.                    *)
SequenceInv(g) ==
  LET held == grant[g] IN
  /\ client[g].stage # "Gone" =>
       /\ held.held => held.retired <= client[g].sequence
       /\ \A m \in net : ForGrant(m, g) => m.sequence <= client[g].sequence
  /\ (held.held /\ held.transfer.kind # "Idle") => held.transfer.sequence <= held.retired

-----------------------------------------------------------------------------
(* The client and the host agree.                                          *)

Unrefused(g) == client[g].reply.is # "Error"
Pending(g) == IF client[g].reply = NoReply THEN {client[g].awaits} ELSE {}

Agreed(g) ==
  /\ grant[g].held
  /\ grant[g].revision = client[g].revision
  /\ grant[g].baseline = client[g].seen
  /\ client[g].seen # NoContent

Downloading(g) ==
  /\ grant[g].held
  /\ grant[g].baseline # NoContent
  /\ grant[g].retired = 1
  /\ grant[g].transfer \in [kind : {"Download"}, sequence : {1}, content : {grant[g].baseline},
                            offset : Nat]

Settled(g, n) ==
  /\ Agreed(g)
  /\ grant[g].transfer.kind \in {"Idle", "Committed"}
  /\ grant[g].retired <= n

(* A selection that still may succeed.                                     *)
OpeningInv(g) ==
  LET page == client[g]
      held == grant[g]
  IN
  page.stage = "Opening" =>
    /\ page.awaits.op = "Snapshot" =>
         /\ page.opened = 0
         /\ (open /\ Unrefused(g)) =>
              /\ Only(g, Pending(g), 0)
              /\ held.held
              /\ page.reply.is = "Ok" =>
                   Downloading(g) /\ held.revision = page.reply.revision
    /\ (page.awaits.op = "Read" /\ open /\ Unrefused(g)) =>
         /\ Only(g, Pending(g), 0)
         /\ Downloading(g)
         /\ held.revision = page.opened
         /\ page.reply.is = "Ok" => page.reply.content = held.baseline
    /\ (page.awaits.op = "Release" /\ page.opened > 0 /\ open /\ Unrefused(g)) =>
         /\ Only(g, Pending(g), 0)
         /\ Agreed(g)
         /\ IF page.reply = NoReply THEN Downloading(g) ELSE Settled(g, 1)
    /\ page.awaits.op \in {"Snapshot", "Read"} => ~page.blocked
    /\ page.awaits.op = "Release" => ~page.blocked

Holds(g, n) ==
  /\ IsActive(grant[g].transfer, "Upload", n)
  /\ grant[g].retired = n
  /\ \A k \in 1..Len(grant[g].transfer.chunks) :
       grant[g].transfer.chunks[k] = client[g].draft

(* Between saves, and in each of the steps of a save.                      *)
RestInv(g) ==
  LET page == client[g] IN
  (open /\ page.stage = "Ready" /\ ~page.blocked /\ page.awaits = NoRequest) =>
    Settled(g, page.sequence) /\ Only(g, {}, page.sequence)

NoCommit(g) == \A m \in net : ForGrant(m, g) => m.op # "Commit"

UploadingInv(g) ==
  LET page == client[g]
      m == page.awaits
      n == page.sequence
      held == grant[g]
  IN
  (open /\ Saving(g) /\ m.op \in {"CheckSession", "BeginEdit", "Write"}) =>
    /\ n > 0
    /\ NoCommit(g)
    /\ ~saves[page.draft].reached
    /\ saves[page.draft].base = page.seen
    /\ Unrefused(g) =>
         /\ Agreed(g)
         /\ Only(g, Pending(g), n - 1)
         /\ (m.op = "CheckSession" \/ (m.op = "BeginEdit" /\ page.reply = NoReply)) =>
              Settled(g, n - 1)
         /\ (m.op = "BeginEdit" /\ page.reply # NoReply) =>
              Holds(g, n) /\ Len(held.transfer.chunks) = 0
         /\ m.op = "Write" =>
              /\ Holds(g, n)
              /\ Len(held.transfer.chunks) =
                   m.offset + (IF page.reply = NoReply THEN 0 ELSE 1)

CommittingInv(g) ==
  LET page == client[g]
      m == page.awaits
      reply == page.reply
      n == page.sequence
      held == grant[g]
      transfer == grant[g].transfer
      save == saves[page.draft]
  IN
  /\ (open /\ Saving(g) /\ m.op = "Status" /\ reply.is = "Error") => reply = TimedOut
  /\ (open /\ Saving(g) /\ (m.op = "Commit" \/ (m.op = "Status" /\ Unrefused(g)))) =>
    /\ n > 0
    /\ held.held
    /\ transfer.kind \in {"Upload", "Committed", "Failed"}
    /\ transfer.sequence = n /\ held.retired = n
    /\ Only(g, Pending(g) \cup {Request("Commit", g, n)}, n - 1)
    /\ transfer.kind # "Upload" => NoCommit(g)
    /\ m.op = "Status" => (transfer.kind = "Failed" /\ transfer.effect = "none") \/ page.error = "unknown"
    /\ transfer.kind = "Upload" =>
         /\ Agreed(g) /\ Holds(g, n) /\ Len(transfer.chunks) = Chunks
         /\ ~save.reached
         /\ save.base = page.seen
         /\ m.op = "Commit" => reply = NoReply \/ reply = TimedOut
    /\ transfer.kind = "Committed" =>
         /\ transfer.revision = page.revision + 1
         /\ held.revision = page.revision + 1
         /\ held.baseline = page.draft
         /\ save.confirmed = transfer.revision
         /\ (m.op = "Commit" /\ reply.is = "Error") => reply = TimedOut
    /\ transfer.kind = "Failed" =>
         /\ transfer.effect = "none" => ~save.reached
         /\ m.op = "Commit" => reply.is = "Error" /\ reply.effect \in {"unknown", transfer.effect}
    /\ (m.op = "Commit" /\ reply = NoReply) => transfer.kind = "Upload"
    /\ (m.op = "Status" /\ reply.is = "Ok") =>
         /\ reply.state = "committed" => transfer.kind = "Committed"
         /\ reply.state = "failed" =>
              transfer.kind = "Failed" /\ reply.effect = transfer.effect
         /\ reply.state = "other" => page.error = "unknown"

ReleasingInv(g) ==
  LET page == client[g] IN
  (open /\ Saving(g) /\ page.awaits.op = "Release") =>
    /\ page.sequence > 0
    /\ Settled(g, page.sequence)
    /\ Only(g, {}, page.sequence)

(* What the client heard of a commit, whether or not the host is open.     *)
ConfirmedInv(g) ==
  LET page == client[g]
      confirmed == saves[page.draft].confirmed
  IN
  Saving(g) =>
    /\ (page.awaits.op = "Commit" /\ page.reply.is = "Ok") =>
         confirmed = page.reply.revision
    /\ (page.awaits.op = "Status" /\ page.reply.is = "Ok") =>
         (page.reply.state = "committed" => confirmed = page.reply.revision)
    /\ page.awaits.op = "Release" => confirmed = page.revision

-----------------------------------------------------------------------------
(* The drafts.                                                             *)

(* What the host has of uploads, also of those that the client gave up.    *)
UploadInv(g) ==
  LET held == grant[g] IN
  held.held =>
    /\ held.transfer.kind = "Upload" =>
         /\ Len(held.transfer.chunks) <= Chunks
         /\ \A k \in 1..Len(held.transfer.chunks) :
              /\ held.transfer.chunks[k] = held.transfer.chunks[1]
              /\ held.baseline = saves[held.transfer.chunks[k]].base
    /\ \A m \in net :
         (ForGrant(m, g) /\ m.op \in {"Write", "Commit"}) => m.sequence <= held.retired
    /\ \A m \in net :
         (ForGrant(m, g) /\ m.op = "Write" /\ IsActive(held.transfer, "Upload", m.sequence)) =>
           /\ held.baseline = saves[m.draft].base
           /\ \A k \in 1..Len(held.transfer.chunks) : held.transfer.chunks[k] = m.draft
    /\ \A m, o \in net :
         /\ ForGrant(m, g) /\ ForGrant(o, g)
         /\ m.op = "Write" /\ o.op = "Write" /\ m.sequence = o.sequence
         => m.draft = o.draft
    /\ \A m \in net :
         (ForGrant(m, g) /\ m.op = "Commit" /\ IsActive(held.transfer, "Upload", m.sequence)) =>
           /\ Len(held.transfer.chunks) = Chunks
           /\ saves[held.transfer.chunks[1]].result \in {"Saving", "Unknown"}

(* A draft is saved on one grant.                                          *)
Owns(g, d) ==
  \/ client[g].draft = d
  \/ \E m \in net : ForGrant(m, g) /\ m.op = "Write" /\ m.draft = d
  \/ /\ grant[g].held /\ grant[g].transfer.kind = "Upload"
     /\ \E k \in 1..Len(grant[g].transfer.chunks) : grant[g].transfer.chunks[k] = d

DraftInv(d) ==
  /\ \A f, g \in Tickets : Owns(f, d) /\ Owns(g, d) => f = g
  /\ \A g \in Tickets : Owns(g, d) => saves[d].result # "Unsaved"
  /\ \A g \in Tickets : client[g].draft = d => saves[d].result = "Saving"
  /\ saves[d].result = "Saving" => \E g \in Tickets : client[g].draft = d
  /\ saves[d].result = "Unsaved" => ~saves[d].reached
  /\ saves[d].result = "Saved" => saves[d].confirmed = saves[d].revision
  /\ (saves[d].result = "NotSaved" /\ open) => ~saves[d].reached

-----------------------------------------------------------------------------
Local(g) ==
  /\ AwaitsInv(g) /\ ReplyInv(g) /\ SequenceInv(g)
  /\ OpeningInv(g) /\ RestInv(g) /\ UploadingInv(g) /\ CommittingInv(g)
  /\ ReleasingInv(g) /\ ConfirmedInv(g) /\ UploadInv(g)

IInv ==
  /\ Types
  /\ PickerInv
  /\ \A g \in Tickets : TicketInv(g) /\ Local(g)
  /\ \A d \in Drafts : DraftInv(d)

-----------------------------------------------------------------------------
(* The edit of the folder.                                                 *)

EditStages == {"Compare", "Verify", "Swap", "Clean", "ReadBack", "Undo", "Restore"}
Edits ==
  [stage : EditStages, request : Requests, old : Inventories, new : Inventories,
   left : SUBSET Files, changed : SUBSET Files, checked : SUBSET Files, failed : BOOLEAN]

FolderTypes ==
  /\ disk \in Inventories /\ aside \in Inventories /\ recovery \in BOOLEAN
  /\ Editing => edit \in Edits

(* The commit that holds the host is still to be answered, and its edit is *)
(* from the host's baseline of the grant to the draft uploaded on it.      *)
Busy ==
  Editing =>
    LET m == edit.request IN
    /\ m \in net /\ OfGrant(m) /\ m.op = "Commit" /\ Accepts(m)
    /\ edit.old = grant[m.grant].baseline
    /\ edit.new = Uploaded(m.grant)

(* Only what the edit started from is set aside, until it rolls back; as   *)
(* long as that goes well, each changed file is yet to be put back.        *)
EditInv ==
  /\ (~Editing /\ ~recovery) => Aside = {}
  /\ Editing =>
       /\ \A a, b \in edit.checked : a = b
       /\ edit.stage # "Undo" => edit.checked = {}
       /\ edit.stage = "Compare" =>
            /\ edit.changed = {}
            /\ recovery => edit.left = Files
            /\ ~recovery => Aside = {}
       /\ edit.stage = "Verify" => edit.changed = {} /\ Aside = {}
       /\ edit.stage = "Swap" =>
            /\ \A f \in Files : aside[f] \in {Absent, edit.old[f]}
            /\ \A f \in edit.changed :
                 f \in Aside \/ (f \notin edit.left /\ edit.new[f] # Absent)
       /\ edit.stage = "Clean" =>
            /\ \A f \in Files : aside[f] \in {Absent, edit.old[f]}
            /\ Aside \subseteq edit.left
       /\ edit.stage = "ReadBack" => Aside = {}
       /\ (edit.stage = "Undo" /\ ~edit.failed) =>
            edit.changed \subseteq Aside \cup edit.left \cup edit.checked
       /\ (edit.stage = "Restore" /\ ~edit.failed) =>
            Aside \cup edit.changed \subseteq edit.left

FolderInv == FolderTypes /\ Busy /\ EditInv

-----------------------------------------------------------------------------
(* Messages, replies and entries.                                          *)

LEMMA RequestForms ==
  ASSUME NEW m \in Requests
  PROVE  /\ OfGrant(m) /\ ~OfChooser(m) /\ m # CloseRequest /\ m # NoRequest
         /\ m.grant \in Tickets /\ m.sequence \in Nat
         /\ m.op = "Read" <=> m \in Reads
         /\ m.op = "BeginEdit" <=> m \in Begins
         /\ m.op = "Write" <=> m \in Writes
         /\ m.op \in {"Snapshot", "Release", "Revoke", "CheckSession", "Commit", "Status"}
              <=> m \in Plain
         /\ m.op \in {"Snapshot", "Release", "Revoke", "CheckSession", "Commit", "Status",
                      "Read", "BeginEdit", "Write"}
BY DEF Requests, Plain, Reads, Begins, Writes, OfGrant, OfChooser, CloseRequest, NoRequest

LEMMA OtherForms ==
  /\ \A m \in Asks : /\ ~OfGrant(m) /\ OfChooser(m) /\ m.attempt \in Nat
                     /\ m.op \in {"CheckSession", "ChooseWrite", "CancelPicker"}
  /\ ~OfGrant(CloseRequest) /\ ~OfChooser(CloseRequest) /\ CloseRequest.op = "CloseSession"
  /\ \A op \in {"CheckSession", "ChooseWrite", "CancelPicker"}, n \in Nat :
       /\ Ask(op, n) \in Asks
       /\ Ask(op, n).op = op /\ Ask(op, n).attempt = n
BY DEF Asks, OfGrant, OfChooser, CloseRequest, Ask

LEMMA Made ==
  ASSUME NEW g \in Tickets, NEW n \in Nat
  PROVE  /\ \A op \in {"Snapshot", "Release", "Revoke", "CheckSession", "Commit", "Status"} :
              /\ Request(op, g, n) \in Plain
              /\ Request(op, g, n).op = op /\ Request(op, g, n).grant = g
              /\ Request(op, g, n).sequence = n
         /\ \A offset \in Nat :
              /\ ReadRequest(g, n, offset) \in Reads
              /\ ReadRequest(g, n, offset).op = "Read" /\ ReadRequest(g, n, offset).grant = g
              /\ ReadRequest(g, n, offset).sequence = n
              /\ ReadRequest(g, n, offset).offset = offset
         /\ \A revision \in Nat :
              /\ BeginRequest(g, n, revision) \in Begins
              /\ BeginRequest(g, n, revision).op = "BeginEdit"
              /\ BeginRequest(g, n, revision).grant = g
              /\ BeginRequest(g, n, revision).sequence = n
              /\ BeginRequest(g, n, revision).revision = revision
         /\ \A offset \in Nat, draft \in Drafts :
              /\ WriteRequest(g, n, offset, draft) \in Writes
              /\ WriteRequest(g, n, offset, draft).op = "Write"
              /\ WriteRequest(g, n, offset, draft).grant = g
              /\ WriteRequest(g, n, offset, draft).sequence = n
              /\ WriteRequest(g, n, offset, draft).offset = offset
              /\ WriteRequest(g, n, offset, draft).draft = draft
BY DEF Request, ReadRequest, BeginRequest, WriteRequest, Plain, Reads, Begins, Writes

(* The requests of a grant on their way. *)
LEMMA Mine ==
  ASSUME Types, NEW g, NEW m \in net, ForGrant(m, g)
  PROVE  m \in Requests /\ g \in Tickets /\ m.grant = g
BY OtherForms, RequestForms DEF Types, HostTypes, ForGrant

LEMMA ReplyForms ==
  ASSUME NEW r \in Replies
  PROVE  /\ r.is \in {"None", "Ok", "Error"}
         /\ r.is = "None" <=> r = NoReply
         /\ r.is = "Error" => r \in [is : {"Error"}, effect : Effects]
         /\ r = TimedOut => r.is = "Error" /\ r.effect = "unknown"
BY DEF Replies, Statuses, NoReply, Done, TimedOut, Refused, Effects

LEMMA GrantForms ==
  /\ NoGrant \notin Grants /\ NewGrant \in Grants /\ ~NoGrant.held
  /\ \A held \in Grants \cup {NoGrant} : held.held => held \in Grants
  /\ NewGrant.transfer = Idle /\ NewGrant.retired = 0 /\ NewGrant.held
<1>1. NewGrant \in Grants
  BY DEF NewGrant, Grants, Transfers, Inventory
<1>2. NoGrant \notin Grants /\ ~NoGrant.held
  BY DEF NoGrant, Grants
<1> QED BY <1>1, <1>2 DEF NewGrant

LEMMA TransferForms ==
  ASSUME NEW t \in Transfers
  PROVE  /\ t.kind \in {"Idle", "Download", "Upload", "Committed", "Failed"}
         /\ t.kind # "Idle" => t.sequence \in Nat
         /\ t.kind = "Upload" => t \in [kind : {"Upload"}, sequence : Nat, chunks : Seq(Drafts)]
         /\ t.kind = "Download" =>
              t \in [kind : {"Download"}, sequence : Nat, content : Inventories, offset : Nat]
         /\ t.kind = "Committed" => t \in [kind : {"Committed"}, sequence : Nat, revision : Nat]
         /\ t.kind = "Failed" => t \in [kind : {"Failed"}, sequence : Nat, effect : Effects]
BY DEF Transfers, Idle

(* A chunk that is added to an upload. *)
LEMMA Appended ==
  ASSUME NEW chunks \in Seq(Drafts), NEW d \in Drafts
  PROVE  /\ Append(chunks, d) \in Seq(Drafts)
         /\ Len(Append(chunks, d)) = Len(chunks) + 1
         /\ \A k \in 1..Len(chunks) : Append(chunks, d)[k] = chunks[k]
         /\ Append(chunks, d)[Len(chunks) + 1] = d
BY AppendProperties

(* The client's next request, and the end of a call. *)
Sent(g, entry, m) ==
  /\ client' \in [Tickets -> Entries]
  /\ client'[g].stage = entry.stage /\ client'[g].awaits = m
  /\ client'[g].reply = NoReply /\ client'[g].reply.is = "None"
  /\ client'[g].revision = entry.revision /\ client'[g].sequence = entry.sequence
  /\ client'[g].blocked = entry.blocked /\ client'[g].opened = entry.opened
  /\ client'[g].error = entry.error /\ client'[g].draft = entry.draft
  /\ client'[g].seen = entry.seen
  /\ \A f \in Tickets \ {g} : client'[f] = client[f]
  /\ net' = net \cup {m}

LEMMA SendsGives ==
  ASSUME ClientTypes, NEW g \in Tickets, NEW entry \in Entries, NEW m \in Requests,
         Sends(g, entry, m)
  PROVE  Sent(g, entry, m)
<1>1. NoReply \in Replies /\ NoReply.is = "None"
  BY DEF Replies, NoReply
<1>2. [entry EXCEPT !.awaits = m, !.reply = NoReply] \in Entries
  BY <1>1 DEF Entries
<1> QED BY <1>1, <1>2 DEF Sends, ClientTypes, Entries, Sent

Rested(g, entry) ==
  /\ client' \in [Tickets -> Entries]
  /\ client'[g].stage = entry.stage /\ client'[g].awaits = NoRequest
  /\ client'[g].reply = NoReply /\ client'[g].reply.is = "None"
  /\ client'[g].revision = entry.revision /\ client'[g].sequence = entry.sequence
  /\ client'[g].blocked = entry.blocked /\ client'[g].opened = 0
  /\ client'[g].error = "none" /\ client'[g].draft = NoContent
  /\ client'[g].seen = entry.seen
  /\ \A f \in Tickets \ {g} : client'[f] = client[f]
  /\ net' = net

LEMMA RestsGives ==
  ASSUME ClientTypes, NEW g \in Tickets, NEW entry \in Entries, Rests(g, entry)
  PROVE  Rested(g, entry)
<1>1. NoReply \in Replies /\ NoReply.is = "None"
  BY DEF Replies, NoReply
<1>2. [entry EXCEPT !.awaits = NoRequest, !.reply = NoReply, !.opened = 0,
                    !.error = "none", !.draft = NoContent] \in Entries
  BY <1>1 DEF Entries, Effects
<1> QED BY <1>1, <1>2 DEF Rests, ClientTypes, Entries, Rested
-----------------------------------------------------------------------------
(* What a step on one grant leaves alone.                                  *)

Keeps(f) ==
  /\ client'[f] = client[f] /\ grant'[f] = grant[f] /\ open' = open
  /\ \A m \in net' : ForGrant(m, f) => m \in net
  /\ \A d \in Drafts : Owns(f, d) => saves'[d] = saves[d]

LEMMA LocalKept ==
  ASSUME Types, NEW f \in Tickets, Local(f), Keeps(f)
  PROVE  Local(f)'
<1>1. Saving(f) => client[f].draft \in Drafts /\ Owns(f, client[f].draft)
  BY DEF Local, AwaitsInv, Saving, SaveOps, Owns, Request, NoRequest
<1>2. AwaitsInv(f)' /\ ReplyInv(f)' /\ SequenceInv(f)'
  BY DEF Local, AwaitsInv, ReplyInv, SequenceInv, Saving, SaveRequest, Keeps
<1>3. \A s, n : Only(f, s, n) => Only(f, s, n)'
  BY DEF Only, Keeps
<1>4. OpeningInv(f)' /\ RestInv(f)'
  BY <1>3 DEF Local, OpeningInv, RestInv, Keeps, Unrefused, Pending, Downloading, Settled,
              Agreed
<1>5. NoCommit(f) => NoCommit(f)'
  BY DEF NoCommit, Keeps
<1>6. UploadingInv(f)'
  BY <1>1, <1>3, <1>5 DEF Local, UploadingInv, Keeps, Unrefused, Pending, Settled, Agreed, Holds,
              Saving
<1>7. CommittingInv(f)'
  BY <1>1, <1>3, <1>5 DEF Local, CommittingInv, Keeps, Unrefused, Pending, Agreed, Holds,
              Saving
<1>8. ReleasingInv(f)' /\ ConfirmedInv(f)'
  BY <1>1, <1>3 DEF Local, ReleasingInv, ConfirmedInv, Keeps, Settled, Agreed, Saving
<1>9. UploadInv(f)'
  <2> SUFFICES ASSUME grant[f].held
               PROVE  UploadInv(f)'
    BY DEF UploadInv, Keeps
  <2>1. grant[f] \in Grants /\ grant[f].transfer \in Transfers
    BY GrantForms DEF Types, HostTypes, Grants
  <2>2. grant[f].transfer.kind = "Upload" =>
          \A k \in 1..Len(grant[f].transfer.chunks) :
            /\ grant[f].transfer.chunks[k] \in Drafts
            /\ Owns(f, grant[f].transfer.chunks[k])
    BY <2>1, TransferForms, ElementOfSeq DEF Owns
  <2>3. \A m \in net : ForGrant(m, f) /\ m.op = "Write" => m.draft \in Drafts /\ Owns(f, m.draft)
    BY Mine, RequestForms DEF Owns, Writes
  <2>4. \A m \in net :
          ForGrant(m, f) /\ m.op = "Commit" /\ IsActive(grant[f].transfer, "Upload", m.sequence) =>
            1 \in 1..Len(grant[f].transfer.chunks)
    BY BoundsAssumption DEF Local, UploadInv, IsActive
  <2> QED BY SMTT(30), <2>2, <2>3, <2>4 DEF Local, UploadInv, Keeps, IsActive
<1> QED BY <1>2, <1>4, <1>6, <1>7, <1>8, <1>9 DEF Local

(* A step of the page or of the host on grant g. *)
StepOf(g) ==
  /\ open' = open /\ service' = service /\ disposed' = disposed
  /\ \A f \in Tickets \ {g} : client'[f] = client[f] /\ grant'[f] = grant[f]
  /\ \A m \in net' : m \in net \/ (m \in Requests /\ ForGrant(m, g))
  /\ \A d \in Drafts : saves'[d] = saves[d] \/ (\A f \in Tickets \ {g} : ~Owns(f, d))

SameChooser ==
  chooser'.at = chooser.at /\ chooser'.attempt = chooser.attempt /\ chooser'.reply = chooser.reply

LEMMA OthersLocal ==
  ASSUME IInv, NEW g \in Tickets, StepOf(g), Local(g)'
  PROVE  \A f \in Tickets : Local(f)'
<1>1. ASSUME NEW f \in Tickets, f # g
      PROVE  Local(f)'
  <2>1. Keeps(f)
    BY <1>1 DEF StepOf, Keeps, ForGrant
  <2> QED BY <1>1, <2>1, LocalKept DEF IInv
<1> QED BY <1>1

Follows(g) ==
  \/ client'[g].stage = client[g].stage
  \/ client[g].stage \in {"Ready", "Revoking"} /\ client'[g].stage \in {"Ready", "Revoking", "Gone"}

LEMMA OthersTickets ==
  ASSUME IInv, NEW g \in Tickets, StepOf(g), SameChooser, client[g].stage # "None", Follows(g),
         grant[g] = NoGrant => grant'[g] = NoGrant, grant'[g].held => grant[g].held,
         client[g].stage = "Gone" => client'[g] = client[g], ~Unused(g)
  PROVE  PickerInv' /\ \A f \in Tickets : TicketInv(f)'
<1>1. PickerInv'
  <2>1. \A m \in net' : m.op = "ChooseWrite" => m \in net
    BY RequestForms DEF StepOf
  <2>4. \A f \in Tickets : client[f].stage = "None" => client'[f].stage = "None"
    BY DEF StepOf
  <2>5. (chooser.at = "ChooseWrite" /\ chooser.reply.is = "Ok" /\ chooser.reply.ticket # NoTicket) =>
           service.next \in Tickets
    BY BoundsAssumption DEF IInv, PickerInv, NoTicket, Types, HostTypes, ClientTypes, Tickets
  <2> QED BY <2>1, <2>4, <2>5 DEF IInv, PickerInv, StepOf, SameChooser, Waiting
<1>2. ASSUME NEW f \in Tickets, f # g
      PROVE  TicketInv(f)'
  BY <1>2 DEF IInv, TicketInv, Fresh, Unused, StepOf, SameChooser, ForGrant
<1>3. TicketInv(g)'
  BY DEF IInv, TicketInv, Fresh, StepOf, SameChooser, Follows
<1> QED BY <1>1, <1>2, <1>3

(* A draft that the step leaves alone. *)
LEMMA DraftKept ==
  ASSUME NEW d \in Drafts, DraftInv(d), saves'[d] = saves[d], open' => open,
         \A f \in Tickets : Owns(f, d)' => Owns(f, d),
         \A f \in Tickets : client'[f].draft = d <=> client[f].draft = d
  PROVE  DraftInv(d)'
BY DEF DraftInv

(* What a save awaits names its sequence. *)
LEMMA AwaitedForms ==
  ASSUME Types, NEW g \in Tickets, AwaitsInv(g), Saving(g)
  PROVE  LET m == client[g].awaits IN
         /\ m.grant = g /\ m.sequence = client[g].sequence /\ m.sequence \in Nat
         /\ client[g].draft \in Drafts
         /\ m \in Requests
         /\ m.op = "BeginEdit" => m = BeginRequest(g, m.sequence, client[g].revision)
         /\ m.op = "Write" => /\ m = WriteRequest(g, m.sequence, m.offset, client[g].draft)
                              /\ m.offset \in Nat /\ m.offset < Chunks
         /\ m.op \in {"CheckSession", "Commit", "Status", "Release"} =>
              m = Request(m.op, g, m.sequence)
<1> DEFINE m == client[g].awaits
           n == client[g].sequence
<1>1. n \in Nat /\ client[g].revision \in Nat /\ m \in Requests \cup {NoRequest}
  BY DEF Types, ClientTypes, Entries
<1>2. SaveRequest(g) /\ client[g].draft \in Drafts
  BY DEF AwaitsInv, Saving, SaveOps, NoRequest, Request
<1>3. CASE \E op \in {"CheckSession", "Commit", "Status", "Release"} : m = Request(op, g, n)
  BY <1>1, <1>2, <1>3, Made, RequestForms DEF Requests
<1>4. CASE m = BeginRequest(g, n, client[g].revision)
  BY <1>1, <1>2, <1>4, Made, RequestForms DEF Requests
<1>5. CASE m \in Writes /\ m = WriteRequest(g, n, m.offset, client[g].draft) /\ m.offset < Chunks
  <2>1. m.offset \in Nat /\ m \in Requests
    BY <1>5 DEF Writes, Requests
  <2>2. m.op = "Write" /\ m.grant = g /\ m.sequence = n
    BY ONLY <1>1, <1>2, <1>5, <2>1, Made
  <2>3. m = WriteRequest(g, m.sequence, m.offset, client[g].draft)
    BY <1>5, <2>2
  <2> QED BY <1>1, <1>2, <1>5, <2>1, <2>2, <2>3
<1> QED BY <1>2, <1>3, <1>4, <1>5 DEF SaveRequest
-----------------------------------------------------------------------------
(* The host handles a request of a grant.                                  *)

LEMMA OfNobody ==
  ASSUME IInv, NEW m \in net, OfGrant(m)
  PROVE  /\ m \in Requests /\ m.grant \in Tickets /\ ForGrant(m, m.grant)
         /\ client[m.grant].stage # "None" /\ ~Unused(m.grant)
BY Mine, OtherForms, RequestForms DEF IInv, TicketInv, Fresh, Unused, ForGrant, Types, HostTypes

SamePage(g) ==
  /\ client'[g].stage = client[g].stage /\ client'[g].awaits = client[g].awaits
  /\ client'[g].revision = client[g].revision /\ client'[g].sequence = client[g].sequence
  /\ client'[g].blocked = client[g].blocked /\ client'[g].opened = client[g].opened
  /\ client'[g].error = client[g].error /\ client'[g].draft = client[g].draft
  /\ client'[g].seen = client[g].seen

Hears(g, m, r) ==
  /\ SamePage(g)
  /\ \/ /\ client[g].awaits = m /\ client[g].reply = NoReply /\ client[g].reply.is = "None"
        /\ client[g].stage # "Gone"
        /\ client'[g].reply = r
     \/ client'[g].reply = client[g].reply /\ (client[g].awaits = m => client[g].reply # NoReply)

(* The reply reaches the client that awaits it. *)
LEMMA Answered ==
  ASSUME IInv, NEW m \in net, OfGrant(m), NEW r \in Replies, r.is # "None",
         client' = IF Awaited(m) THEN [client EXCEPT ![m.grant].reply = r] ELSE client
  PROVE  /\ client' \in [Tickets -> Entries]
         /\ \A f \in Tickets \ {m.grant} : client'[f] = client[f]
         /\ client[m.grant].stage = "Gone" => client'[m.grant] = client[m.grant]
         /\ ~Awaited(m) => client' = client
         /\ Hears(m.grant, m, r)
         /\ AwaitsInv(m.grant)'
<1> DEFINE g == m.grant
<1>1. g \in Tickets /\ m \in Requests /\ m # NoRequest
  BY OfNobody, RequestForms
<1>2. client[g] \in Entries /\ client \in [Tickets -> Entries]
  BY <1>1 DEF IInv, Types, ClientTypes
<1>3. [client[g] EXCEPT !.reply = r] \in Entries
  BY <1>2 DEF Entries
<1>4. Awaited(m) => client[g].stage # "Gone"
  BY <1>1 DEF Awaited, IInv, Local, AwaitsInv
<1>5. CASE Awaited(m)
  <2>1. client'[g] = [client[g] EXCEPT !.reply = r]
    BY <1>1, <1>2, <1>5
  <2>2. \A f \in Tickets \ {g} : client'[f] = client[f]
    BY <1>1, <1>2, <1>5
  <2>3. client' \in [Tickets -> Entries]
    BY <1>1, <1>2, <1>3, <1>5
  <2> HIDE DEF g
  <2>4. /\ client'[g].stage = client[g].stage /\ client'[g].awaits = client[g].awaits
        /\ client'[g].revision = client[g].revision
        /\ client'[g].sequence = client[g].sequence
        /\ client'[g].blocked = client[g].blocked /\ client'[g].opened = client[g].opened
        /\ client'[g].error = client[g].error /\ client'[g].draft = client[g].draft
        /\ client'[g].seen = client[g].seen /\ client'[g].reply = r
    BY <1>2, <2>1 DEF Entries
  <2>5. AwaitsInv(g)'
    <3>1. SaveRequest(g) => SaveRequest(g)'
      BY <2>4 DEF SaveRequest
    <3>2. Saving(g) <=> Saving(g)'
      BY <2>4 DEF Saving
    <3> QED BY <1>1, <2>4, <3>1, <3>2 DEF IInv, Local, AwaitsInv, g
  <2> QED BY <1>4, <1>5, <2>1, <2>2, <2>3, <2>4, <2>5 DEF Awaited, NoReply, g, Hears, SamePage
<1>6. CASE ~Awaited(m)
  <2>1. client' = client
    BY <1>6
  <2>2. AwaitsInv(g)'
    BY <1>1, <2>1 DEF IInv, Local, AwaitsInv, SaveRequest, Saving
  <2> QED BY <1>2, <1>6, <2>1, <2>2 DEF Awaited, Hears, SamePage
<1> QED BY <1>5, <1>6

(* Nothing but the reply. *)
LEMMA OnlyAnswers ==
  ASSUME IInv, NEW m \in net, OfGrant(m), ~Awaited(m),
         NEW r, Answer(m, r), UNCHANGED <<open, grant>>
  PROVE  Local(m.grant)'
<1>1. Keeps(m.grant)
  BY DEF Keeps, Answer
<1> QED BY <1>1, OfNobody, LocalKept DEF IInv

LEMMA AnswerIsAStep ==
  ASSUME IInv, NEW m \in net, OfGrant(m), NEW r \in Replies, r.is # "None", Answer(m, r),
         open' = open, service' = service, \A f \in Tickets \ {m.grant} : grant'[f] = grant[f]
  PROVE  /\ StepOf(m.grant) /\ SameChooser /\ Follows(m.grant)
         /\ client[m.grant].stage # "None"
         /\ client[m.grant].stage = "Gone" => client'[m.grant] = client[m.grant]
         /\ ClientTypes' /\ net' \subseteq Requests \cup Asks \cup {CloseRequest}
<1>1. /\ client' \in [Tickets -> Entries]
      /\ \A f \in Tickets \ {m.grant} : client'[f] = client[f]
      /\ client'[m.grant].stage = client[m.grant].stage
      /\ client[m.grant].stage = "Gone" => client'[m.grant] = client[m.grant]
  BY Answered DEF Answer, Hears, SamePage
<1>2. UNCHANGED <<disposed, chooser, saves>> /\ net' = net \ {m}
  BY DEF Answer
<1> QED BY <1>1, <1>2, OfNobody DEF StepOf, SameChooser, Follows, IInv, Types, HostTypes,
           ClientTypes

LEMMA RefusesLocal ==
  ASSUME IInv, NEW m \in net, OfGrant(m), Refuse(m)
  PROVE  Local(m.grant)'
<1> DEFINE g == m.grant
           r == Refused("none")
<1>1. CASE ~Awaited(m)
  BY <1>1, OnlyAnswers DEF Refuse, host
<1>2. CASE Awaited(m)
  <2>1. r \in Replies /\ r.is = "Error" /\ r.effect = "none"
    BY DEF Refused, Replies, Effects
  <2>2. /\ g \in Tickets /\ m \in Requests /\ ForGrant(m, g)
    BY OfNobody
  <2>3. Answer(m, r) /\ UNCHANGED <<open, grant, saves>> /\ net' = net \ {m} /\ ~Accepts(m)
    BY DEF Refuse, Answer, host
  <2>4. /\ AwaitsInv(g)' /\ SamePage(g)
        /\ client'[g].awaits = m /\ client[g].awaits = m
        /\ client'[g].reply = r /\ client[g].reply = NoReply
    BY <1>2, <2>1, <2>3, Answered DEF Answer, Hears, SamePage, Awaited
  <2> HIDE DEF g, r
  <2>5. Local(g) /\ m # NoRequest
    BY <2>2, RequestForms DEF IInv
  <2>6. ReplyInv(g)' /\ SequenceInv(g)'
    BY <2>1, <2>3, <2>4, <2>5 DEF SamePage, ReplyInv, SequenceInv, Local
  <2>7. OpeningInv(g)' /\ RestInv(g)' /\ ReleasingInv(g)' /\ ConfirmedInv(g)'
    BY <2>1, <2>3, <2>4, <2>5 DEF OpeningInv, Local, SamePage, Unrefused, RestInv, ReleasingInv,
       Only, Settled, Agreed,
         Saving, ConfirmedInv
  <2>8. UploadingInv(g)'
    BY <2>1, <2>3, <2>4, <2>5 DEF SamePage, UploadingInv, Local, Unrefused, Saving, NoCommit
  <2>9. CommittingInv(g)'
    <3>1. CASE open /\ Saving(g) /\ m.op = "Commit"
      <4>1. Accepts(m)
        <5>1. m.sequence = client[g].sequence
          <6>1. Types /\ AwaitsInv(g)
            BY <2>5 DEF Local, IInv
          <6> QED BY <2>2, <2>4, <3>1, <6>1, AwaitedForms
        <5>2. grant[g].transfer.kind = "Upload"
          BY <2>4, <2>5, <3>1 DEF Local, CommittingInv, Saving
        <5>3. Agreed(g) /\ Holds(g, client[g].sequence) /\ Len(grant[g].transfer.chunks) = Chunks
          BY <2>4, <2>5, <3>1, <5>2 DEF Local, CommittingInv, Saving
        <5> QED BY <3>1, <5>1, <5>3 DEF Accepts, AcceptsCommit, Agreed, Holds, g
      <4> QED BY <4>1, <2>3
    <3>2. CASE open /\ Saving(g) /\ m.op = "Status"
      <4>1. m.sequence = client[g].sequence
        <5>1. Types /\ AwaitsInv(g)
          BY <2>5 DEF Local, IInv
        <5> QED BY <2>2, <2>4, <3>2, <5>1, AwaitedForms
      <4>2. Accepts(m)
        BY <2>4, <2>5, <3>2, <4>1 DEF Local, CommittingInv, Accepts, AcceptsStatus, g, NoReply,
           Unrefused
      <4> QED BY <4>2, <2>3
    <3> QED BY <2>3, <2>4, <3>1, <3>2 DEF SamePage, CommittingInv, Saving
  <2>10. UploadInv(g)'
    BY <2>3, <2>5 DEF UploadInv, Local
  <2> QED BY <2>4, <2>6, <2>7, <2>8, <2>9, <2>10 DEF Local, g
<1> QED BY <1>1, <1>2

(* A request that nobody awaits any more, or that nobody agrees on. *)
LEMMA UnheardLocal ==
  ASSUME IInv, NEW m \in net, OfGrant(m), ~Awaited(m), m.op \notin {"Release", "Commit"},
         client' = client, open' = open, saves' = saves, net' = net \ {m},
         SequenceInv(m.grant)', UploadInv(m.grant)'
  PROVE  Local(m.grant)'
<1> DEFINE g == m.grant
<1>1. g \in Tickets /\ m \in Requests /\ ForGrant(m, g) /\ Local(g) /\ m # CloseRequest
  BY OfNobody, RequestForms DEF IInv
<1>2. ~(client[g].awaits = m /\ client[g].reply = NoReply)
  BY DEF Awaited
<1> HIDE DEF g
<1>3. \A n : ~Only(g, Pending(g), n) /\ ~Only(g, {}, n)
  BY <1>1, <1>2 DEF Only, Pending
<1>4. \A n : ~Only(g, Pending(g) \cup {Request("Commit", g, client[g].sequence)}, n)
  BY <1>1, <1>2 DEF Only, Pending, Request
<1>5. Saving(g)' <=> Saving(g)
  BY DEF Saving
<1>6. AwaitsInv(g)' /\ ReplyInv(g)'
  BY <1>1 DEF Local, AwaitsInv, ReplyInv, Saving, SaveRequest
<1>7. OpeningInv(g)' /\ RestInv(g)' /\ ReleasingInv(g)' /\ ConfirmedInv(g)'
  BY <1>1, <1>3, <1>5 DEF Local, OpeningInv, RestInv, ReleasingInv, ConfirmedInv, Unrefused
<1>8. UploadingInv(g)'
  BY <1>1, <1>3, <1>5 DEF Local, UploadingInv, Unrefused, NoCommit
<1>9. CommittingInv(g)'
  BY <1>1, <1>4, <1>5 DEF Local, CommittingInv, Unrefused
<1> QED BY <1>6, <1>7, <1>8, <1>9 DEF Local, g

(* A request that is awaited is of one stage. *)
LEMMA HeardLocal ==
  ASSUME IInv, NEW g \in Tickets, NEW m \in Requests, client[g].awaits = m, SamePage(g)
  PROVE  /\ RestInv(g)'
         /\ m.op \notin {"Snapshot", "Read", "Release"} => OpeningInv(g)'
         /\ m.op \notin {"CheckSession", "BeginEdit", "Write"} => UploadingInv(g)'
         /\ m.op \notin {"Commit", "Status"} => CommittingInv(g)'
         /\ m.op # "Release" => ReleasingInv(g)'
         /\ m.op \notin {"Commit", "Status", "Release"} => ConfirmedInv(g)'
<1>1. Local(g) /\ m # NoRequest
  BY RequestForms DEF IInv
<1>2. client[g].stage = "Opening" => m.op \in {"Snapshot", "Read", "Release"}
  BY <1>1, RequestForms DEF Local, AwaitsInv, Request
<1> QED BY <1>1, <1>2 DEF SamePage, RestInv, OpeningInv, UploadingInv, CommittingInv, ReleasingInv,
               ConfirmedInv, Saving

LEMMA ChecksLocal ==
  ASSUME IInv, NEW m \in net, OfGrant(m), HandleCheck(m)
  PROVE  Local(m.grant)'
<1> DEFINE g == m.grant
           r == Done
<1>1. r \in Replies /\ r.is = "Ok" /\ r # NoReply
  BY DEF Done, Replies, NoReply
<1>2. /\ g \in Tickets /\ m \in Requests /\ ForGrant(m, g) /\ Local(g)
      /\ m.sequence \in Nat
  BY OfNobody, RequestForms DEF IInv
<1>3. /\ open' = open /\ saves' = saves /\ net' = net \ {m} /\ m.op = "CheckSession"
      /\ grant' = grant
      /\ Hears(g, m, r) /\ AwaitsInv(g)'
  BY <1>1, Answered DEF HandleCheck, Answer, host
<1>4. CASE ~Awaited(m)
  BY <1>4, OnlyAnswers DEF HandleCheck, host
<1>5. CASE Awaited(m)
  <2>1. SamePage(g) /\ client[g].awaits = m /\ client[g].reply = NoReply /\ client'[g].reply = r
    BY SMTT(30), <1>3, <1>5 DEF Hears, Awaited
  <2> HIDE DEF g, r
  <2>2. ReplyInv(g)' /\ SequenceInv(g)' /\ UploadInv(g)'
    BY <1>1, <1>2, <1>3, <2>1 DEF ReplyInv, SequenceInv, UploadInv, Local, SamePage
  <2>3. UploadingInv(g)'
    <3> SUFFICES ASSUME open, Saving(g)
                 PROVE  UploadingInv(g)'
      BY <1>3, <2>1 DEF UploadingInv, Saving, SamePage
    <3>1. Only(g, {m}, client[g].sequence - 1)
      BY <1>1, <1>2, <1>3, <2>1 DEF UploadingInv, Local, Unrefused, Pending, NoReply
    <3>2. Only(g, {}, client[g].sequence - 1)' /\ Pending(g)' = {}
      BY <1>1, <1>3, <2>1, <3>1 DEF Only, Pending, SamePage
    <3>3. NoCommit(g)'
      BY <1>2, <1>3, <2>1 DEF UploadingInv, Local, NoCommit, Unrefused
    <3>4. Settled(g, client[g].sequence - 1)'
      BY <1>1, <1>2, <1>3, <2>1 DEF UploadingInv, Local, SamePage, Unrefused, NoReply, Settled,
         Agreed
    <3> QED BY <1>1, <1>2, <1>3, <2>1, <3>2, <3>3, <3>4 DEF UploadingInv, Local, SamePage,
               Unrefused, Settled, NoReply
  <2> QED BY <1>2, <1>3, <2>1, <2>2, <2>3, HeardLocal DEF Local, g
<1> QED BY <1>4, <1>5

LEMMA RevokesLocal ==
  ASSUME IInv, NEW m \in net, OfGrant(m), HandleRevoke(m)
  PROVE  Local(m.grant)' /\ grant'[m.grant] = NoGrant
<1> DEFINE g == m.grant
           r == Done
<1>1. r \in Replies /\ r.is = "Ok" /\ r # NoReply
  BY DEF Done, Replies, NoReply
<1>2. /\ g \in Tickets /\ m \in Requests /\ ForGrant(m, g) /\ Local(g)
  BY OfNobody DEF IInv
<1>3. /\ open' = open /\ saves' = saves /\ net' = net \ {m} /\ m.op = "Revoke"
      /\ Hears(g, m, r) /\ AwaitsInv(g)'
      /\ ~Awaited(m) => client' = client
  BY SMTT(30), <1>1, Answered DEF HandleRevoke, Answer, host
<1>4. grant'[g] = NoGrant /\ ~NoGrant.held
  BY <1>2, GrantForms DEF HandleRevoke, IInv, Types, HostTypes
<1> HIDE DEF g
<1>5. SequenceInv(g)' /\ UploadInv(g)'
  BY <1>2, <1>3, <1>4 DEF SequenceInv, UploadInv, Local, Hears, SamePage
<1>6. CASE ~Awaited(m)
  BY <1>3, <1>4, <1>5, <1>6, UnheardLocal DEF g
<1>7. CASE Awaited(m)
  <2>1. SamePage(g) /\ client[g].awaits = m /\ client[g].reply = NoReply /\ client'[g].reply = r
    BY <1>3, <1>7 DEF Hears, Awaited, g
  <2>2. ReplyInv(g)'
    BY <1>3, <2>1 DEF ReplyInv, SamePage
  <2> QED BY <1>2, <1>3, <1>4, <1>5, <2>1, <2>2, HeardLocal DEF Local, g
<1> QED BY <1>6, <1>7

LEMMA SnapshotFailsLocal ==
  ASSUME IInv, NEW m \in net, OfGrant(m),
         SnapshotFails(m) \/ SnapshotUncertain(m)
  PROVE  Local(m.grant)'
<1> DEFINE g == m.grant
<1>0. PICK effect \in Effects : Answer(m, Refused(effect))
  BY DEF SnapshotFails, SnapshotUncertain, Effects
<1> DEFINE r == Refused(effect)
<1>1. r \in Replies /\ r.is = "Error" /\ r # NoReply
  BY DEF Refused, Replies, NoReply, Effects
<1>2. /\ g \in Tickets /\ m \in Requests /\ ForGrant(m, g) /\ Local(g)
  BY OfNobody DEF IInv
<1>3. /\ open' = open /\ saves' = saves /\ net' = net \ {m} /\ m.op = "Snapshot"
      /\ grant' = grant
      /\ Hears(g, m, r) /\ AwaitsInv(g)'
  <2>1. m.op = "Snapshot" /\ open' = open /\ grant' = grant
    BY DEF SnapshotFails, SnapshotUncertain, host
  <2> QED BY <1>0, <1>1, <2>1, Answered DEF Answer
<1>4. CASE ~Awaited(m)
  BY <1>0, <1>3, <1>4, OnlyAnswers
<1>5. CASE Awaited(m)
  <2>1. SamePage(g) /\ client[g].awaits = m /\ client[g].reply = NoReply /\ client'[g].reply = r
    BY SMTT(30), <1>3, <1>5 DEF Hears, Awaited
  <2> HIDE DEF g, r
  <2>2. ReplyInv(g)' /\ SequenceInv(g)' /\ UploadInv(g)'
    BY <1>1, <1>2, <1>3, <2>1 DEF ReplyInv, SequenceInv, UploadInv, Local, SamePage
  <2>3. OpeningInv(g)'
    BY <1>1, <1>2, <1>3, <2>1 DEF OpeningInv, Local, SamePage, Unrefused
  <2> QED BY <1>2, <1>3, <2>1, <2>2, <2>3, HeardLocal DEF Local, g
<1> QED BY <1>4, <1>5

LEMMA SnapshotsLocal ==
  ASSUME IInv, NEW m \in net, OfGrant(m), HandleSnapshot(m)
  PROVE  Local(m.grant)' /\ grant[m.grant].held /\ grant'[m.grant] \in Grants
<1> DEFINE g == m.grant
           revision == grant[g].revision + 1
           r == [is |-> "Ok", revision |-> revision]
<1>0. PICK content \in Inventories :
        grant' = [grant EXCEPT ![m.grant] =
                    [held |-> TRUE, baseline |-> content,
                     revision |-> revision, retired |-> m.sequence,
                     transfer |-> Download(m.sequence, content, 0)]]
  BY DEF HandleSnapshot, Readable
<1>1. /\ g \in Tickets /\ m \in Requests /\ ForGrant(m, g) /\ Local(g) /\ m.sequence \in Nat
      /\ open' = open /\ net' = net \ {m} /\ m.op = "Snapshot"
      /\ m \in Plain
  BY OfNobody, RequestForms DEF IInv, HandleSnapshot, Answer
<1>2. open /\ grant[g].held /\ AcceptsSnapshot(grant[g], m)
  BY <1>1 DEF HandleSnapshot, Accepts
<1>3. grant[g] \in Grants /\ content # NoContent
  BY <1>1, <1>2, GrantForms, ContentsAssumption DEF IInv, Types, HostTypes
<1>4. revision \in Nat /\ revision > 0
  <2>1. grant[g].revision \in Nat
    BY <1>3 DEF Grants
  <2> QED BY <2>1
<1>5. r \in Replies /\ r.is = "Ok" /\ r # NoReply /\ r \in [is : {"Ok"}, revision : Nat]
  BY <1>4 DEF Replies, NoReply
<1>6. /\ Answer(m, r)
      /\ grant'[g] = [held |-> TRUE, baseline |-> content, revision |-> revision,
                      retired |-> m.sequence, transfer |-> Download(m.sequence, content, 0)]
  BY <1>0, <1>1 DEF HandleSnapshot, IInv, Types, HostTypes
<1>7. /\ saves' = saves /\ Hears(g, m, r) /\ AwaitsInv(g)'
      /\ ~Awaited(m) => client' = client
  BY <1>5, <1>6, Answered DEF Answer
<1>8. Download(m.sequence, content, 0) \in
        [kind : {"Download"}, sequence : {m.sequence}, content : {content}, offset : Nat]
  BY DEF Download
<1>9. grant'[g] \in Grants
  BY <1>1, <1>3, <1>4, <1>6, <1>8 DEF Grants, Transfers, Inventory
<1> HIDE DEF g, revision, r
<1>10. SequenceInv(g)'
  BY <1>1, <1>3, <1>6, <1>7, <1>8 DEF SequenceInv, Local, Hears, SamePage
<1>11. UploadInv(g)'
  <2>1. grant[g].retired \in Nat /\ m.sequence > grant[g].retired
    BY <1>2, <1>3 DEF AcceptsSnapshot, Grants
  <2>2. grant'[g].transfer.kind = "Download" /\ grant'[g].retired = m.sequence
    BY <1>6, <1>8
  <2>3. \A o \in net : ForGrant(o, g) => o.sequence \in Nat
    BY Mine, RequestForms DEF IInv
  <2>4. \A o \in net' : o \in net
    BY <1>1
  <2>5. \A o \in net' : ForGrant(o, g) /\ o.op \in {"Write", "Commit"} => o.sequence <= grant'[g].retired
    BY <1>1, <1>2, <2>1, <2>2, <2>3, <2>4 DEF Local, UploadInv
  <2>6. \A o, p \in net' :
         /\ ForGrant(o, g) /\ ForGrant(p, g)
         /\ o.op = "Write" /\ p.op = "Write" /\ o.sequence = p.sequence
         => o.draft = p.draft
    BY <1>1, <1>2, <2>4 DEF Local, UploadInv
  <2> QED BY <2>2, <2>5, <2>6 DEF UploadInv, IsActive
<1>12. CASE ~Awaited(m)
  BY <1>1, <1>2, <1>7, <1>9, <1>10, <1>11, <1>12, UnheardLocal DEF g
<1>13. CASE Awaited(m)
  <2>1. SamePage(g) /\ client[g].awaits = m /\ client[g].reply = NoReply /\ client'[g].reply = r
    BY <1>7, <1>13 DEF Hears, Awaited, g
  <2>2. ReplyInv(g)'
    BY <1>1, <1>5, <2>1 DEF ReplyInv, SamePage
  <2>3. OpeningInv(g)'
    <3> SUFFICES ASSUME client[g].stage = "Opening"
                 PROVE  OpeningInv(g)'
      BY <2>1 DEF OpeningInv, SamePage
    <3>1. m.sequence = 1
      BY <1>1, <2>1 DEF Local, AwaitsInv, Request, Reads, ReadRequest
    <3>2. Only(g, {m}, 0)
      BY <1>1, <1>2, <2>1 DEF Local, OpeningInv, Unrefused, NoReply, Pending
    <3>3. Only(g, {}, 0)' /\ Pending(g)' = {}
      BY <1>1, <1>5, <2>1, <3>2 DEF Only, Pending
    <3>4. Downloading(g)' /\ grant'[g].held /\ grant'[g].revision = client'[g].reply.revision
      BY <1>3, <1>6, <1>8, <2>1, <3>1 DEF Downloading, r
    <3> QED BY <1>1, <2>1, <3>3, <3>4 DEF Local, OpeningInv, SamePage
  <2> QED BY <1>1, <1>2, <1>7, <1>9, <1>10, <1>11, <2>1, <2>2, <2>3, HeardLocal DEF Local, g
<1> QED BY <1>12, <1>13

LEMMA ReadsLocal ==
  ASSUME IInv, NEW m \in net, OfGrant(m), HandleRead(m)
  PROVE  Local(m.grant)' /\ grant[m.grant].held /\ grant'[m.grant] \in Grants
<1> DEFINE g == m.grant
           transfer == grant[g].transfer
           r == [is |-> "Ok", content |-> transfer.content]
<1>1. /\ g \in Tickets /\ m \in Requests /\ ForGrant(m, g) /\ Local(g) /\ m.sequence \in Nat
      /\ open' = open /\ net' = net \ {m} /\ m.op = "Read"
      /\ m \in Reads /\ m.offset \in Nat
  BY OfNobody, RequestForms DEF IInv, HandleRead, Answer, Reads
<1>2. open /\ grant[g].held /\ AcceptsRead(grant[g], m)
  BY <1>1 DEF HandleRead, Accepts
<1>3. /\ grant[g] \in Grants /\ transfer \in Transfers /\ grant[g].retired \in Nat
      /\ transfer \in [kind : {"Download"}, sequence : Nat, content : Inventories, offset : Nat]
  BY <1>1, <1>2, GrantForms, TransferForms DEF IInv, Types, HostTypes, Grants, AcceptsRead, IsActive
<1>4. r \in Replies /\ r.is = "Ok" /\ r # NoReply /\ r \in [is : {"Ok"}, content : Inventories]
      /\ r.content = transfer.content
  BY <1>3 DEF Replies, NoReply
<1>5. /\ Answer(m, r)
      /\ grant'[g] = [grant[g] EXCEPT !.transfer = [transfer EXCEPT !.offset = m.offset + 1]]
  BY <1>1 DEF HandleRead, IInv, Types, HostTypes
<1>6. /\ saves' = saves /\ Hears(g, m, r) /\ AwaitsInv(g)'
      /\ ~Awaited(m) => client' = client
  BY <1>4, <1>5, Answered DEF Answer
<1> HIDE DEF r
<1> DEFINE next == [transfer EXCEPT !.offset = m.offset + 1]
<1>12. next \in [kind : {"Download"}, sequence : {transfer.sequence},
                 content : {transfer.content}, offset : Nat]
  BY <1>1, <1>3
<1>13. /\ next \in [kind : {"Download"}, sequence : Nat, content : Inventories, offset : Nat]
       /\ next.kind = "Download" /\ next.sequence = transfer.sequence
       /\ next.content = transfer.content
  BY <1>3, <1>12
<1> HIDE DEF next
<1>14. next \in Transfers
  BY <1>13 DEF Transfers
<1>7. /\ grant'[g] \in Grants
      /\ grant'[g].held /\ grant'[g].baseline = grant[g].baseline
      /\ grant'[g].revision = grant[g].revision /\ grant'[g].retired = grant[g].retired
      /\ grant'[g].transfer.kind = "Download" /\ grant'[g].transfer.sequence = transfer.sequence
      /\ grant'[g].transfer.content = transfer.content
      /\ grant'[g].transfer \in
           [kind : {"Download"}, sequence : {transfer.sequence}, content : {transfer.content},
            offset : Nat]
  <2>1. grant'[g] = [grant[g] EXCEPT !.transfer = next]
    BY <1>5 DEF next
  <2> QED BY ZenonT(30), <1>3, <1>12, <1>13, <1>14, <2>1 DEF Grants
<1> HIDE DEF g, transfer
<1>8. SequenceInv(g)'
  BY <1>1, <1>2, <1>3, <1>6, <1>7 DEF SequenceInv, Local, Hears, SamePage, transfer
<1>9. UploadInv(g)'
  BY <1>1, <1>2, <1>7 DEF Local, UploadInv, IsActive
<1>10. CASE ~Awaited(m)
  BY <1>1, <1>2, <1>6, <1>7, <1>8, <1>9, <1>10, UnheardLocal DEF g
<1>11. CASE Awaited(m)
  <2>1. SamePage(g) /\ client[g].awaits = m /\ client[g].reply = NoReply /\ client'[g].reply = r
    BY <1>6, <1>11 DEF Hears, Awaited, g
  <2>2. ReplyInv(g)'
    BY <1>1, <1>4, <2>1 DEF ReplyInv, SamePage
  <2>3. OpeningInv(g)'
    <3> SUFFICES ASSUME client[g].stage = "Opening"
                 PROVE  OpeningInv(g)'
      BY <2>1 DEF OpeningInv, SamePage
    <3>1. Only(g, {m}, 0) /\ Downloading(g) /\ grant[g].revision = client[g].opened
      BY <1>1, <1>2, <2>1 DEF Local, OpeningInv, Unrefused, NoReply, Pending
    <3>2. Only(g, {}, 0)' /\ Pending(g)' = {}
      BY <1>1, <1>4, <2>1, <3>1 DEF Only, Pending
    <3>3. Downloading(g)' /\ r.content = grant'[g].baseline
      BY <1>4, <1>7, <3>1 DEF Downloading, transfer
    <3> QED BY <1>1, <1>7, <2>1, <3>1, <3>2, <3>3 DEF Local, OpeningInv, SamePage
  <2> QED BY <1>1, <1>2, <1>6, <1>7, <1>8, <1>9, <2>1, <2>2, <2>3, HeardLocal DEF Local, g
<1> QED BY <1>10, <1>11

LEMMA BeginsLocal ==
  ASSUME IInv, NEW m \in net, OfGrant(m), HandleBegin(m)
  PROVE  Local(m.grant)' /\ grant[m.grant].held /\ grant'[m.grant] \in Grants
<1> DEFINE g == m.grant
           r == Done
<1>1. /\ g \in Tickets /\ m \in Requests /\ ForGrant(m, g) /\ Local(g) /\ m.sequence \in Nat
      /\ open' = open /\ net' = net \ {m} /\ m.op = "BeginEdit"
      /\ m \in Begins
  BY OfNobody, RequestForms DEF IInv, HandleBegin, Answer
<1>2. open /\ grant[g].held /\ AcceptsBegin(grant[g], m)
  BY <1>1 DEF HandleBegin, Accepts
<1>3. grant[g] \in Grants /\ grant[g].retired \in Nat
  BY <1>1, <1>2, GrantForms DEF IInv, Types, HostTypes, Grants
<1>4. r \in Replies /\ r.is = "Ok" /\ r # NoReply
  BY DEF Done, Replies, NoReply
<1>5. /\ Answer(m, r)
      /\ grant'[g] = [grant[g] EXCEPT !.retired = m.sequence,
                                      !.transfer = Upload(m.sequence, << >>)]
  BY <1>1 DEF HandleBegin, IInv, Types, HostTypes
<1>6. /\ saves' = saves /\ Hears(g, m, r) /\ AwaitsInv(g)'
      /\ ~Awaited(m) => client' = client
  BY <1>4, <1>5, Answered DEF Answer
<1>7. Upload(m.sequence, << >>) \in Transfers
  BY <1>1 DEF Upload, Transfers
<1>8. /\ grant'[g] \in Grants
      /\ grant'[g].held /\ grant'[g].baseline = grant[g].baseline
      /\ grant'[g].revision = grant[g].revision /\ grant'[g].retired = m.sequence
      /\ grant'[g].transfer = Upload(m.sequence, << >>)
  BY ZenonT(30), <1>1, <1>3, <1>5, <1>7 DEF Grants
<1>9. /\ grant'[g].transfer.kind = "Upload" /\ grant'[g].transfer.sequence = m.sequence
      /\ grant'[g].transfer.chunks = << >> /\ Len(grant'[g].transfer.chunks) = 0
  BY <1>8 DEF Upload
<1> HIDE DEF g, r
<1>10. SequenceInv(g)'
  BY <1>1, <1>2, <1>3, <1>6, <1>8, <1>9 DEF SequenceInv, Local, Hears, SamePage
<1>11. UploadInv(g)'
  <2>1. grant[g].retired \in Nat /\ m.sequence > grant[g].retired
    BY <1>2, <1>3 DEF AcceptsBegin, Grants
  <2>2. \A o \in net' : o \in net /\ (ForGrant(o, g) => o.sequence \in Nat)
    BY <1>1, Mine, RequestForms DEF IInv
  <2>3. \A o \in net' : ForGrant(o, g) /\ o.op \in {"Write", "Commit"} =>
          o.sequence <= grant'[g].retired /\ o.sequence # m.sequence
    BY <1>1, <1>2, <1>8, <2>1, <2>2 DEF Local, UploadInv
  <2>4. \A o, p \in net' :
         /\ ForGrant(o, g) /\ ForGrant(p, g)
         /\ o.op = "Write" /\ p.op = "Write" /\ o.sequence = p.sequence
         => o.draft = p.draft
    BY <1>1, <1>2, <2>2 DEF Local, UploadInv
  <2> QED BY <1>9, <2>3, <2>4, BoundsAssumption DEF UploadInv, IsActive
<1>12. CASE ~Awaited(m)
  BY <1>1, <1>2, <1>6, <1>8, <1>10, <1>11, <1>12, UnheardLocal DEF g
<1>13. CASE Awaited(m)
  <2>1. SamePage(g) /\ client[g].awaits = m /\ client[g].reply = NoReply /\ client'[g].reply = r
    BY <1>6, <1>13 DEF Hears, Awaited, g
  <2>2. ReplyInv(g)'
    BY <1>1, <2>1 DEF ReplyInv, SamePage
  <2>3. UploadingInv(g)'
    <3> SUFFICES ASSUME Saving(g)
                 PROVE  UploadingInv(g)'
      BY <2>1 DEF UploadingInv, Saving, SamePage
    <3>1. Only(g, {m}, client[g].sequence - 1) /\ Agreed(g) /\ NoCommit(g)
      BY <1>1, <1>2, <2>1 DEF UploadingInv, Local, Unrefused, Pending, NoReply
    <3>2. Only(g, {}, client[g].sequence - 1)' /\ Pending(g)' = {}
      BY <1>1, <1>4, <2>1, <3>1 DEF Only, Pending, SamePage
    <3>3. NoCommit(g)' /\ Agreed(g)'
      BY <1>1, <1>8, <2>1, <3>1 DEF NoCommit, Agreed, SamePage
    <3>4. m.sequence = client[g].sequence
      BY <1>1, <2>1, AwaitedForms DEF Local, IInv
    <3>5. Holds(g, client[g].sequence)'
      BY <1>8, <1>9, <2>1, <3>4 DEF Holds, IsActive, SamePage
    <3> QED BY <1>1, <1>2, <1>4, <1>6, <1>9, <2>1, <3>2, <3>3, <3>5
            DEF UploadingInv, Local, SamePage, Unrefused
  <2> QED BY <1>1, <1>2, <1>6, <1>8, <1>10, <1>11, <2>1, <2>2, <2>3, HeardLocal DEF Local, g
<1> QED BY <1>12, <1>13

LEMMA WritesLocal ==
  ASSUME IInv, NEW m \in net, OfGrant(m), HandleWrite(m)
  PROVE  /\ Local(m.grant)' /\ grant[m.grant].held /\ grant'[m.grant] \in Grants
         /\ grant'[m.grant].transfer.chunks = Append(grant[m.grant].transfer.chunks, m.draft)
<1> DEFINE g == m.grant
           transfer == grant[g].transfer
           r == Done
<1>1. /\ g \in Tickets /\ m \in Requests /\ ForGrant(m, g) /\ Local(g) /\ m.sequence \in Nat
      /\ open' = open /\ net' = net \ {m} /\ m.op = "Write"
      /\ m \in Writes /\ m.offset \in Nat /\ m.draft \in Drafts
  BY OfNobody, RequestForms DEF IInv, HandleWrite, Answer, Writes
<1>2. open /\ grant[g].held /\ AcceptsWrite(grant[g], m)
  BY <1>1 DEF HandleWrite, Accepts
<1>3. /\ grant[g] \in Grants /\ transfer \in Transfers /\ grant[g].retired \in Nat
      /\ transfer \in [kind : {"Upload"}, sequence : Nat, chunks : Seq(Drafts)]
  BY <1>1, <1>2, GrantForms, TransferForms DEF IInv, Types, HostTypes, Grants, AcceptsWrite,
     IsActive
<1>4. r \in Replies /\ r.is = "Ok" /\ r # NoReply
  BY DEF Done, Replies, NoReply
<1>5. /\ Answer(m, r)
      /\ grant'[g] = [grant[g] EXCEPT !.transfer =
                        [transfer EXCEPT !.chunks = Append(transfer.chunks, m.draft)]]
  BY <1>1 DEF HandleWrite, IInv, Types, HostTypes
<1>6. /\ saves' = saves /\ Hears(g, m, r) /\ AwaitsInv(g)'
      /\ ~Awaited(m) => client' = client
  BY <1>4, <1>5, Answered DEF Answer
<1> DEFINE chunks == transfer.chunks
           more == Append(chunks, m.draft)
           next == [transfer EXCEPT !.chunks = more]
<1>7. /\ chunks \in Seq(Drafts) /\ Len(chunks) = m.offset /\ m.offset < Chunks
      /\ transfer.sequence = m.sequence
  BY <1>2, <1>3 DEF AcceptsWrite, IsActive
<1>8. /\ more \in Seq(Drafts) /\ Len(more) = Len(chunks) + 1
      /\ \A k \in 1..Len(chunks) : more[k] = chunks[k]
      /\ more[Len(chunks) + 1] = m.draft
  BY SMTT(30), <1>1, <1>7, Appended
<1>9. /\ next \in [kind : {"Upload"}, sequence : Nat, chunks : Seq(Drafts)]
      /\ next.kind = "Upload" /\ next.sequence = m.sequence /\ next.chunks = more
  BY <1>3, <1>7, <1>8
<1> HIDE DEF next
<1>10. next \in Transfers
  BY <1>9 DEF Transfers
<1>11. /\ grant'[g] \in Grants
       /\ grant'[g].held /\ grant'[g].baseline = grant[g].baseline
       /\ grant'[g].revision = grant[g].revision /\ grant'[g].retired = grant[g].retired
       /\ grant'[g].transfer = next
  <2>1. grant'[g] = [grant[g] EXCEPT !.transfer = next]
    BY <1>5 DEF next
  <2> QED BY ZenonT(30), <1>3, <1>10, <2>1 DEF Grants
<1> HIDE DEF g, transfer, r, chunks, more
<1>12. /\ \A k \in 1..Len(chunks) : chunks[k] = m.draft
       /\ grant[g].baseline = saves[m.draft].base
  BY <1>1, <1>2, <1>3, <1>7 DEF Local, UploadInv, IsActive, transfer, chunks
<1>13. /\ \A k \in 1..Len(more) : more[k] = m.draft
       /\ Len(more) \in Nat /\ Len(more) <= Chunks /\ 1 \in 1..Len(more)
  BY <1>1, <1>7, <1>8, <1>12, BoundsAssumption
<1>14. SequenceInv(g)'
  BY <1>1, <1>2, <1>3, <1>6, <1>7, <1>9, <1>11 DEF SequenceInv, Local, Hears, SamePage, transfer
<1>15. UploadInv(g)'
  <2>1. grant'[g].held /\ grant'[g].transfer.kind = "Upload"
        /\ grant'[g].transfer.sequence = m.sequence /\ grant'[g].transfer.chunks = more
    BY <1>9, <1>11
  <2>2. \A k \in 1..Len(more) : more[k] = more[1] /\ grant'[g].baseline = saves'[more[k]].base
    BY <1>6, <1>11, <1>12, <1>13
  <2>3. \A o \in net' :
         (ForGrant(o, g) /\ o.op \in {"Write", "Commit"}) => o.sequence <= grant'[g].retired
    BY <1>1, <1>2, <1>11 DEF Local, UploadInv
  <2>4. \A o, p \in net' :
         /\ ForGrant(o, g) /\ ForGrant(p, g)
         /\ o.op = "Write" /\ p.op = "Write" /\ o.sequence = p.sequence
         => o.draft = p.draft
    BY <1>1, <1>2 DEF Local, UploadInv
  <2>5. \A o \in net' : (ForGrant(o, g) /\ o.op = "Write" /\ o.sequence = m.sequence) => o.draft = m.draft
    BY <1>1, <1>2 DEF Local, UploadInv
  <2>6. \A o \in net' : ~(ForGrant(o, g) /\ o.op = "Commit" /\ o.sequence = m.sequence)
    BY <1>1, <1>2, <1>3, <1>7, BoundsAssumption DEF Local, UploadInv, IsActive, transfer, chunks
  <2> QED BY <1>6, <1>11, <1>12, <1>13, <2>1, <2>2, <2>3, <2>4, <2>5, <2>6 DEF UploadInv, IsActive
<1>16. CASE ~Awaited(m)
  BY <1>1, <1>2, <1>6, <1>9, <1>11, <1>14, <1>15, <1>16, UnheardLocal DEF g, more, chunks, transfer
<1>17. CASE Awaited(m)
  <2>1. SamePage(g) /\ client[g].awaits = m /\ client[g].reply = NoReply /\ client'[g].reply = r
    BY <1>6, <1>17 DEF Hears, Awaited, g
  <2>2. ReplyInv(g)'
    BY <1>1, <2>1 DEF ReplyInv, SamePage
  <2>3. UploadingInv(g)'
    <3> SUFFICES ASSUME Saving(g)
                 PROVE  UploadingInv(g)'
      BY <2>1 DEF UploadingInv, Saving, SamePage
    <3>1. Only(g, {m}, client[g].sequence - 1) /\ Agreed(g) /\ NoCommit(g)
      BY <1>1, <1>2, <2>1 DEF UploadingInv, Local, Unrefused, Pending, NoReply
    <3>2. Only(g, {}, client[g].sequence - 1)' /\ Pending(g)' = {}
      BY <1>1, <1>4, <2>1, <3>1 DEF Only, Pending, SamePage
    <3>3. NoCommit(g)' /\ Agreed(g)'
      BY <1>1, <1>11, <2>1, <3>1 DEF NoCommit, Agreed, SamePage
    <3>4. m.sequence = client[g].sequence /\ m.draft = client[g].draft
      <4>1. Types /\ AwaitsInv(g) /\ m.draft = WriteRequest(g, m.sequence, m.offset, client[g].draft).draft
        BY <1>1, <2>1, AwaitedForms DEF Local, IInv
      <4> QED BY <1>1, <2>1, <4>1, AwaitedForms DEF WriteRequest
    <3>5. Holds(g, client[g].sequence)'
      <4>1. grant[g].retired = client[g].sequence
        BY <1>1, <1>2, <2>1 DEF UploadingInv, Local, Unrefused, Holds, NoReply
      <4> QED BY <1>9, <1>11, <1>13, <2>1, <3>4, <4>1 DEF Holds, IsActive, SamePage
    <3>6. Len(grant'[g].transfer.chunks) = m.offset + 1
      BY <1>7, <1>8, <1>9, <1>11
    <3> QED BY <1>1, <1>2, <1>4, <1>6, <1>9, <2>1, <3>2, <3>3, <3>5, <3>6
            DEF UploadingInv, Local, SamePage, Unrefused
  <2> QED BY <1>1, <1>2, <1>6, <1>9, <1>11, <1>14, <1>15, <2>1, <2>2, <2>3, HeardLocal
          DEF Local, g, more, chunks, transfer
<1> QED BY <1>16, <1>17

StatusOf(transfer) ==
  CASE transfer.kind = "Committed" ->
         [is |-> "Ok", state |-> "committed", revision |-> transfer.revision]
    [] transfer.kind = "Failed" ->
         [is |-> "Ok", state |-> "failed", effect |-> transfer.effect]
    [] OTHER -> [is |-> "Ok", state |-> "other"]

LEMMA StatusForms ==
  ASSUME NEW transfer \in Transfers
  PROVE  LET r == StatusOf(transfer) IN
         /\ r \in Replies /\ r \in Statuses /\ r.is = "Ok" /\ r # NoReply
         /\ r.state \in {"committed", "failed", "other"}
         /\ r.state = "committed" <=> transfer.kind = "Committed"
         /\ r.state = "failed" <=> transfer.kind = "Failed"
         /\ transfer.kind = "Committed" => r.revision = transfer.revision
         /\ transfer.kind = "Failed" => r.effect = transfer.effect
<1>1. CASE transfer.kind = "Committed"
  <2>1. transfer.revision \in Nat
    BY <1>1, TransferForms
  <2> QED BY <1>1, <2>1 DEF StatusOf, Replies, Statuses, NoReply
<1>2. CASE transfer.kind = "Failed"
  <2>1. transfer.effect \in Effects
    BY <1>2, TransferForms
  <2> QED BY <1>2, <2>1 DEF StatusOf, Replies, Statuses, NoReply
<1>3. CASE transfer.kind \notin {"Committed", "Failed"}
  BY <1>3 DEF StatusOf, Replies, Statuses, NoReply
<1> QED BY <1>1, <1>2, <1>3

LEMMA StatusLocal ==
  ASSUME IInv, NEW m \in net, OfGrant(m), HandleStatus(m)
  PROVE  Local(m.grant)'
<1> DEFINE g == m.grant
           transfer == grant[g].transfer
           r == StatusOf(transfer)
<1>1. /\ g \in Tickets /\ m \in Requests /\ ForGrant(m, g) /\ Local(g)
      /\ m.op = "Status" /\ Accepts(m)
      /\ open' = open /\ saves' = saves /\ net' = net \ {m} /\ grant' = grant
      /\ Answer(m, r)
  BY OfNobody DEF IInv, HandleStatus, StatusOf, Answer, host
<1>2. open /\ grant[g].held /\ transfer \in Transfers
  BY <1>1, GrantForms DEF Accepts, IInv, Types, HostTypes, Grants
<1>3. /\ r \in Replies /\ r.is = "Ok" /\ r # NoReply
      /\ r \in Statuses
      /\ r.state \in {"committed", "failed", "other"}
      /\ r.state = "committed" <=> transfer.kind = "Committed"
      /\ r.state = "failed" <=> transfer.kind = "Failed"
      /\ transfer.kind = "Committed" => r.revision = transfer.revision
      /\ transfer.kind = "Failed" => r.effect = transfer.effect
  BY <1>2, StatusForms
<1> HIDE DEF r
<1>4. Hears(g, m, r) /\ AwaitsInv(g)'
  BY <1>1, <1>3, Answered DEF Answer
<1>5. CASE ~Awaited(m)
  BY <1>1, <1>5, OnlyAnswers DEF HandleStatus
<1>6. CASE Awaited(m)
  <2>1. SamePage(g) /\ client[g].awaits = m /\ client[g].reply = NoReply /\ client'[g].reply = r
    BY SMTT(30), <1>4, <1>6 DEF Hears, Awaited
  <2> HIDE DEF g, transfer
  <2>2. ReplyInv(g)' /\ SequenceInv(g)' /\ UploadInv(g)'
    BY <1>1, <1>3, <2>1 DEF ReplyInv, SequenceInv, UploadInv, Local, SamePage
  <2>3. CommittingInv(g)' /\ ConfirmedInv(g)'
    <3> SUFFICES ASSUME Saving(g)
                 PROVE  CommittingInv(g)' /\ ConfirmedInv(g)'
      BY <2>1 DEF CommittingInv, ConfirmedInv, Saving, SamePage
    <3> DEFINE n == client[g].sequence
               c == Request("Commit", g, n)
    <3>1. /\ Only(g, {m} \cup {c}, n - 1)
          /\ transfer.kind # "Upload" => NoCommit(g)
          /\ transfer.kind \in {"Upload", "Committed", "Failed"}
          /\ transfer.kind = "Committed" => saves[client[g].draft].confirmed = transfer.revision
      BY SMTT(30), <1>1, <1>2, <2>1 DEF CommittingInv, Local, Unrefused, Pending, NoReply, transfer
    <3>2. (Only(g, {c}, n - 1))' /\ Pending(g)' = {}
      BY <1>1, <1>3, <2>1, <3>1 DEF Only, Pending, SamePage, Request
    <3>3. NoCommit(g) => NoCommit(g)'
      BY <1>1 DEF NoCommit
    <3>4. ConfirmedInv(g)'
      BY <1>1, <1>3, <2>1, <3>1 DEF ConfirmedInv, SamePage
    <3>5. CommittingInv(g)'
      <4>1. Only(g, Pending(g) \cup {Request("Commit", g, client[g].sequence)}, client[g].sequence - 1)'
        BY <2>1, <3>2 DEF Only, Pending, SamePage
      <4>2. (Agreed(g) => Agreed(g)') /\ \A k : Holds(g, k) => Holds(g, k)'
        BY <1>1, <2>1 DEF Agreed, Holds, SamePage
      <4>3. (transfer.kind = "Failed" /\ transfer.effect = "none") \/ client[g].error = "unknown"
        BY <1>1, <1>2, <2>1 DEF CommittingInv, Local, Unrefused, NoReply, transfer
      <4> QED BY <1>1, <1>2, <1>3, <2>1, <3>1, <3>3, <4>1, <4>2, <4>3
              DEF CommittingInv, Local, SamePage, Unrefused, Saving, transfer, NoReply
    <3> QED BY <3>4, <3>5
  <2> QED BY <1>1, <1>4, <2>1, <2>2, <2>3, HeardLocal DEF Local, g
<1> QED BY <1>5, <1>6

LEMMA ReleasesLocal ==
  ASSUME IInv, NEW m \in net, OfGrant(m), HandleRelease(m)
  PROVE  /\ Local(m.grant)' /\ grant[m.grant].held /\ grant'[m.grant] \in Grants
         /\ grant'[m.grant].transfer.kind \in {"Idle", "Failed"}
<1> DEFINE g == m.grant
           transfer == grant[g].transfer
           r == Done
           next == IF transfer.kind = "Failed" /\ transfer.effect = "unknown"
                   THEN transfer ELSE Idle
<1>1. /\ g \in Tickets /\ m \in Requests /\ ForGrant(m, g) /\ Local(g) /\ m.sequence \in Nat
      /\ open' = open /\ net' = net \ {m} /\ m.op = "Release"
  BY OfNobody, RequestForms DEF IInv, HandleRelease, Answer
<1>2. open /\ grant[g].held /\ m.sequence >= grant[g].retired
  BY <1>1 DEF HandleRelease, Accepts, AcceptsRelease
<1>3. /\ grant[g] \in Grants /\ transfer \in Transfers /\ grant[g].retired \in Nat
      /\ transfer.kind # "Idle" => transfer.sequence \in Nat
  BY <1>1, <1>2, GrantForms, TransferForms DEF IInv, Types, HostTypes, Grants
<1>4. r \in Replies /\ r.is = "Ok" /\ r # NoReply
  BY DEF Done, Replies, NoReply
<1>5. /\ Answer(m, r)
      /\ grant'[g] = [grant[g] EXCEPT !.retired = m.sequence, !.transfer = next]
  BY <1>1 DEF HandleRelease, IInv, Types, HostTypes
<1>6. /\ saves' = saves /\ Hears(g, m, r) /\ AwaitsInv(g)'
      /\ ~Awaited(m) => client' = client
  BY <1>4, <1>5, Answered DEF Answer
<1>7. /\ next \in Transfers
      /\ next.kind = "Idle" \/ (next = transfer /\ next.kind = "Failed")
  BY <1>3 DEF Transfers, Idle
<1> HIDE DEF next
<1>8. /\ grant'[g] \in Grants
      /\ grant'[g].held /\ grant'[g].baseline = grant[g].baseline
      /\ grant'[g].revision = grant[g].revision /\ grant'[g].retired = m.sequence
      /\ grant'[g].transfer = next
  BY ZenonT(30), <1>1, <1>3, <1>5, <1>7 DEF Grants
<1>9. transfer.kind # "Failed" => next.kind = "Idle"
  BY <1>7
<1> HIDE DEF g, transfer, r
<1>10. SequenceInv(g)'
  BY <1>1, <1>2, <1>3, <1>6, <1>7, <1>8 DEF SequenceInv, Local, Hears, SamePage, transfer
<1>11. UploadInv(g)'
  <2>1. \A o \in net' : o \in net /\ (ForGrant(o, g) => o.sequence \in Nat)
    BY <1>1, Mine, RequestForms DEF IInv
  <2>2. \A o \in net' : ForGrant(o, g) /\ o.op \in {"Write", "Commit"} =>
          o.sequence <= grant'[g].retired
    BY <1>1, <1>2, <1>3, <1>8, <2>1 DEF Local, UploadInv
  <2>3. \A o, p \in net' :
         /\ ForGrant(o, g) /\ ForGrant(p, g)
         /\ o.op = "Write" /\ p.op = "Write" /\ o.sequence = p.sequence
         => o.draft = p.draft
    BY <1>1, <1>2, <2>1 DEF Local, UploadInv
  <2> QED BY <1>7, <1>8, <2>2, <2>3 DEF UploadInv, IsActive
<1>12. ASSUME NEW n, Settled(g, n), m.sequence <= n, SamePage(g)
       PROVE  Settled(g, n)'
  BY <1>7, <1>8, <1>9, <1>12 DEF Settled, Agreed, SamePage, transfer
<1>13. client[g].sequence \in Nat
  BY <1>1 DEF IInv, Types, ClientTypes, Entries
<1>14. CASE ~Awaited(m)
  <2>1. client' = client /\ SamePage(g) /\ ~(client[g].awaits = m /\ client[g].reply = NoReply)
    BY <1>6, <1>14 DEF SamePage, Awaited, g
  <2>2. \A s, n : Only(g, s, n) => Only(g, s, n)'
    BY <1>1 DEF Only
  <2>3. \A n : Only(g, Pending(g), n) \/ Only(g, {}, n) => m.sequence <= n
    BY <1>1, <2>1 DEF Only, Pending
  <2>4. \A n, k : Only(g, Pending(g) \cup {Request("Commit", g, k)}, n) => m.sequence <= n
    BY <1>1, <2>1 DEF Only, Pending, Request
  <2>5. ReplyInv(g)'
    BY <1>1, <2>1 DEF Local, ReplyInv
  <2>6. OpeningInv(g)'
    <3>1. ASSUME Downloading(g), Only(g, Pending(g), 0)
          PROVE  FALSE
      BY <1>1, <1>2, <2>3, <3>1 DEF Downloading
    <3> QED BY <1>1, <1>2, <1>8, <1>12, <2>1, <2>2, <2>3, <3>1
            DEF Local, OpeningInv, Unrefused, Pending, Settled, Agreed
  <2>7. RestInv(g)' /\ ReleasingInv(g)'
    BY <1>1, <1>12, <2>1, <2>2, <2>3 DEF Local, RestInv, ReleasingInv, Saving
  <2>8. UploadingInv(g)'
    <3> SUFFICES ASSUME open, Saving(g), client[g].awaits.op \in {"CheckSession", "BeginEdit", "Write"}
                 PROVE  UploadingInv(g)'
      BY <1>1, <2>1 DEF UploadingInv, Saving
    <3>1. NoCommit(g)'
      BY <1>1 DEF Local, UploadingInv, NoCommit
    <3>2. CASE ~Unrefused(g)
      BY <1>1, <1>6, <2>1, <3>1, <3>2 DEF Local, UploadingInv, Unrefused
    <3>3. CASE Unrefused(g)
      <4>1. Only(g, Pending(g), client[g].sequence - 1) /\ m.sequence <= client[g].sequence - 1
        BY <1>1, <2>3, <3>3 DEF Local, UploadingInv
      <4>2. ~Holds(g, client[g].sequence)
        BY <1>1, <1>2, <1>13, <4>1 DEF Holds
      <4>3. Settled(g, client[g].sequence - 1)
        BY <1>1, <3>3, <4>2 DEF Local, UploadingInv
      <4>4. Settled(g, client[g].sequence - 1)'
        BY <1>12, <2>1, <4>1, <4>3
      <4>5. Only(g, Pending(g), client[g].sequence - 1)'
        BY <2>1, <2>2, <4>1 DEF Pending
      <4> QED BY <1>1, <1>6, <2>1, <3>1, <3>3, <4>2, <4>4, <4>5
              DEF Local, UploadingInv, Unrefused, Settled
    <3> QED BY <3>2, <3>3
  <2>9. CommittingInv(g)'
    BY SMTT(30), <1>1, <1>2, <1>3, <1>13, <2>1, <2>4 DEF Local, CommittingInv, Unrefused, Saving
  <2>10. ConfirmedInv(g)'
    BY <1>1, <1>6, <2>1 DEF Local, ConfirmedInv, Saving
  <2> QED BY <1>2, <1>6, <1>7, <1>8, <1>10, <1>11, <2>5, <2>6, <2>7, <2>8, <2>9, <2>10 DEF Local, g
<1>15. CASE Awaited(m)
  <2>1. SamePage(g) /\ client[g].awaits = m /\ client[g].reply = NoReply /\ client'[g].reply = r
    BY <1>6, <1>15 DEF Hears, Awaited, g
  <2>2. ReplyInv(g)'
    BY <1>1, <2>1 DEF ReplyInv, SamePage
  <2>3. OpeningInv(g)'
    <3> SUFFICES ASSUME client[g].stage = "Opening", client[g].opened > 0
                 PROVE  OpeningInv(g)'
      BY <1>1, <2>1 DEF Local, OpeningInv, SamePage
    <3>1. Only(g, {m}, 0) /\ Agreed(g) /\ Downloading(g) /\ ~client[g].blocked
      BY <1>1, <1>2, <2>1 DEF Local, OpeningInv, Unrefused, NoReply, Pending
    <3>2. m.sequence = 1
      BY <1>1, <2>1 DEF Local, AwaitsInv, Request, Reads, ReadRequest
    <3>3. Only(g, {}, 0)' /\ Pending(g)' = {}
      BY <1>1, <1>4, <2>1, <3>1 DEF Only, Pending
    <3>4. Agreed(g)' /\ Settled(g, 1)'
      BY <1>7, <1>8, <1>9, <2>1, <3>1, <3>2 DEF Agreed, Settled, SamePage, Downloading, transfer
    <3> QED BY <1>1, <1>4, <2>1, <3>1, <3>3, <3>4 DEF OpeningInv, SamePage
  <2>4. ReleasingInv(g)' /\ ConfirmedInv(g)'
    <3> SUFFICES ASSUME Saving(g)
                 PROVE  ReleasingInv(g)' /\ ConfirmedInv(g)'
      BY <2>1 DEF ReleasingInv, ConfirmedInv, Saving, SamePage
    <3>1. Only(g, {}, client[g].sequence) /\ Settled(g, client[g].sequence) /\ client[g].sequence > 0
      BY <1>1, <1>2, <2>1 DEF Local, ReleasingInv
    <3>2. Only(g, {}, client[g].sequence)'
      BY <1>1, <2>1, <3>1 DEF Only, SamePage
    <3>3. m.sequence <= client[g].sequence
      BY <1>1, <3>1 DEF Only
    <3>4. Settled(g, client[g].sequence)'
      BY <1>7, <1>8, <1>9, <2>1, <3>1, <3>3 DEF Agreed, Settled, SamePage, transfer
    <3>5. ConfirmedInv(g)'
      BY SMTT(30), <1>1, <1>6, <2>1 DEF Local, ConfirmedInv, SamePage
    <3> QED BY <1>1, <2>1, <3>1, <3>2, <3>4, <3>5 DEF ReleasingInv, SamePage
  <2> QED BY <1>1, <1>2, <1>6, <1>7, <1>8, <1>10, <1>11, <2>1, <2>2, <2>3, <2>4,
             HeardLocal DEF Local, g
<1> QED BY <1>14, <1>15

(* What a commit does, however it ends, to the draft and to the grant.     *)
Commits(m, draft, r) ==
  LET g == m.grant
      next == grant'[g].transfer
  IN
  /\ \A d \in Drafts \ {draft} : saves'[d] = saves[d]
  /\ saves'[draft].base = saves[draft].base /\ saves'[draft].result = saves[draft].result
  /\ grant'[g].held /\ grant'[g].retired = grant[g].retired
  /\ next.sequence = m.sequence
  /\ \/ /\ next.kind = "Failed" /\ r.is = "Error" /\ r.effect = next.effect
        /\ next.effect \in Effects
        /\ next.effect = "none" => ~saves'[draft].reached
        /\ saves'[draft].confirmed = saves[draft].confirmed
     \/ /\ next.kind = "Committed"
        /\ next.revision = grant[g].revision + 1
        /\ r.is = "Ok" /\ r \in [is : {"Ok"}, revision : {next.revision}]
        /\ grant'[g].revision = next.revision /\ grant'[g].baseline = draft
        /\ saves'[draft].confirmed = next.revision

(* The draft of a commit. *)
LEMMA CommitForms ==
  ASSUME IInv, NEW m \in net, OfGrant(m), m.op = "Commit", Accepts(m)
  PROVE  LET g == m.grant
             transfer == grant[g].transfer
         IN
         /\ open /\ grant[g].held /\ grant[g] \in Grants
         /\ transfer.kind = "Upload" /\ transfer.sequence = m.sequence
         /\ transfer \in [kind : {"Upload"}, sequence : Nat, chunks : Seq(Drafts)]
         /\ Len(transfer.chunks) = Chunks
         /\ 1 \in 1..Len(transfer.chunks)
         /\ Uploaded(g) = transfer.chunks[1] /\ Uploaded(g) \in Drafts
         /\ grant[g].baseline = saves[Uploaded(g)].base
         /\ saves[Uploaded(g)].result \in {"Saving", "Unknown"}
         /\ Owns(g, Uploaded(g))
<1> DEFINE g == m.grant
           transfer == grant[g].transfer
<1>1. /\ g \in Tickets /\ m \in Requests /\ ForGrant(m, g) /\ Local(g)
  BY OfNobody DEF IInv
<1>2. open /\ grant[g].held /\ AcceptsCommit(grant[g], m)
  BY DEF Accepts
<1>3. /\ grant[g] \in Grants /\ transfer \in Transfers
  BY <1>1, <1>2, GrantForms DEF IInv, Types, HostTypes, Grants
<1>4. /\ transfer.kind = "Upload" /\ transfer.sequence = m.sequence
      /\ transfer \in [kind : {"Upload"}, sequence : Nat, chunks : Seq(Drafts)]
      /\ Len(transfer.chunks) = Chunks
  BY <1>2, <1>3, TransferForms DEF AcceptsCommit, IsActive
<1>5. 1 \in 1..Len(transfer.chunks) /\ transfer.chunks[1] \in Drafts
  BY <1>4, BoundsAssumption, ElementOfSeq
<1> QED BY <1>1, <1>2, <1>3, <1>4, <1>5 DEF Local, UploadInv, IsActive, Uploaded, Owns

LEMMA CommitsLocal ==
  ASSUME IInv, NEW m \in net, OfGrant(m), m.op = "Commit", Accepts(m),
         NEW r \in Replies, r.is # "None",
         Commits(m, Uploaded(m.grant), r),
         client' = IF Awaited(m) THEN [client EXCEPT ![m.grant].reply = r] ELSE client,
         open' = open, net' = net \ {m}
  PROVE  Local(m.grant)'
<1> DEFINE g == m.grant
           draft == Uploaded(g)
           transfer == grant[g].transfer
           next == grant'[g].transfer
           n == client[g].sequence
           c == Request("Commit", g, n)
<1>1. /\ g \in Tickets /\ m \in Requests /\ ForGrant(m, g) /\ Local(g) /\ Types
      /\ Hears(g, m, r) /\ AwaitsInv(g)'
      /\ m.sequence \in Nat /\ n \in Nat /\ client[g].revision \in Nat /\ r # NoReply
  <2>1. /\ g \in Tickets /\ m \in Requests /\ ForGrant(m, g) /\ Local(g) /\ Types
    BY OfNobody DEF IInv
  <2>2. Hears(g, m, r) /\ AwaitsInv(g)'
    BY Answered
  <2>3. m.sequence \in Nat /\ n \in Nat /\ client[g].revision \in Nat
    BY <2>1, RequestForms DEF Types, ClientTypes, Entries
  <2> QED BY <2>1, <2>2, <2>3 DEF NoReply
<1>2. /\ open /\ grant[g].held /\ grant[g] \in Grants /\ draft \in Drafts
      /\ transfer.kind = "Upload" /\ transfer.sequence = m.sequence
      /\ Len(transfer.chunks) = Chunks /\ 1 \in 1..Len(transfer.chunks)
      /\ draft = transfer.chunks[1]
  BY SMTT(30), CommitForms
<1>3. next.kind \in {"Failed", "Committed"} /\ next.sequence = m.sequence
      /\ grant'[g].held /\ grant'[g].retired = grant[g].retired
      /\ \A d \in Drafts : saves'[d].base = saves[d].base
  BY ZenonT(30), <1>2 DEF Commits
<1> HIDE DEF g, draft, transfer, next, c
<1>4. SequenceInv(g)'
  BY <1>1, <1>2, <1>3 DEF Local, SequenceInv, Hears, SamePage, next, transfer
<1>5. UploadInv(g)'
  <2>1. \A o \in net' :
          ForGrant(o, g) =>
            /\ o.op \in {"Write", "Commit"} => o.sequence <= grant'[g].retired
            /\ \A p \in net' : (/\ ForGrant(p, g) /\ o.op = "Write" /\ p.op = "Write"
                                /\ o.sequence = p.sequence) => o.draft = p.draft
    BY <1>1, <1>2, <1>3 DEF Local, UploadInv
  <2> QED BY <1>3, <2>1 DEF UploadInv, IsActive, next
<1>6. Saving(g)' <=> Saving(g)
  BY <1>1 DEF Saving, Hears, SamePage
<1>7. Saving(g) => client[g].draft \in Drafts
  BY <1>1, AwaitedForms DEF Local
(* The client awaits the commit, or its status, or has given up. *)
<1>9. ASSUME Saving(g), client[g].awaits.op = "Commit" \/ (client[g].awaits.op = "Status" /\ Unrefused(g))
      PROVE  /\ Agreed(g) /\ Holds(g, n) /\ ~saves[client[g].draft].reached /\ n > 0
             /\ grant[g].retired = n /\ transfer.sequence = n
             /\ Only(g, Pending(g) \cup {c}, n - 1)
             /\ client[g].awaits.op = "Status" => client[g].error = "unknown"
             /\ client[g].awaits.op = "Commit" => client[g].reply \in {NoReply, TimedOut}
             /\ (client[g].awaits.op = "Status" /\ client[g].reply.is = "Ok") =>
                  client[g].reply.state \notin {"committed", "failed"}
             /\ client[g].draft = draft /\ m = c
  <2>1. /\ Agreed(g) /\ Holds(g, n) /\ ~saves[client[g].draft].reached /\ n > 0
        /\ grant[g].retired = n /\ transfer.sequence = n
        /\ Only(g, Pending(g) \cup {c}, n - 1)
        /\ client[g].awaits.op = "Status" => client[g].error = "unknown"
        /\ client[g].awaits.op = "Commit" => client[g].reply \in {NoReply, TimedOut}
        /\ (client[g].awaits.op = "Status" /\ client[g].reply.is = "Ok") =>
             (client[g].reply.state \notin {"committed", "failed"})
    BY <1>1, <1>2, <1>9 DEF Local, CommittingInv, transfer, c
  <2>2. client[g].draft = draft
    BY <1>2, <2>1 DEF Holds, transfer
  <2>3. m = c
    <3>1. client[g].awaits.op = "Commit" => client[g].awaits = c
      BY <1>1, <1>9, AwaitedForms DEF Local, c
    <3> QED BY <1>1, <1>9, <2>1, <3>1 DEF Only, Pending
  <2> QED BY <2>1, <2>2, <2>3
<1>10. RestInv(g)' /\ OpeningInv(g)' /\ ReleasingInv(g)' /\ UploadingInv(g)'
  <2>1. \A k : ~Only(g, {}, k)
    BY <1>1 DEF Only
  <2>2. \A k : client[g].awaits.op # "Commit" => ~Only(g, Pending(g), k)
    BY <1>1 DEF Only, Pending
  <2>3. ~NoCommit(g)
    BY <1>1 DEF NoCommit
  <2>4. client[g].awaits # m => client'[g].reply = client[g].reply
    BY <1>1 DEF Hears
  <2>5. RestInv(g)' /\ ReleasingInv(g)'
    BY <1>1, <1>2, <1>6, <2>1 DEF Local, RestInv, ReleasingInv, Hears, SamePage
  <2>6. UploadingInv(g)'
    BY <1>1, <1>2, <1>6, <2>3 DEF Local, UploadingInv, Hears, SamePage
  <2>7. OpeningInv(g)'
    <3>1. client[g].stage = "Opening" => client[g].awaits.op \in {"Snapshot", "Read", "Release"}
      BY <1>1, RequestForms DEF Local, AwaitsInv, Request, Reads
    <3>2. client[g].stage = "Opening" => client[g].awaits # m
      BY <3>1
    <3> QED BY <1>1, <1>2, <2>2, <2>4, <3>1, <3>2 DEF Local, OpeningInv, Hears, SamePage, Unrefused
  <2> QED BY <2>5, <2>6, <2>7
<1>11. CASE ~(client[g].awaits = m /\ client[g].reply = NoReply)
  <2>1. client'[g].reply = client[g].reply /\ SamePage(g)
    BY <1>1, <1>11 DEF Hears
  <2>2. ReplyInv(g)'
    BY <1>1, <2>1 DEF Local, ReplyInv, SamePage
  <2>3. ConfirmedInv(g)'
    <3> SUFFICES ASSUME Saving(g)
                 PROVE  ConfirmedInv(g)'
      BY <1>6 DEF ConfirmedInv
    <3>1. client[g].awaits.op # "Release"
      BY <1>1, <1>2 DEF Local, ReleasingInv, Only
    <3>2. ~(client[g].awaits.op = "Commit" /\ client[g].reply.is = "Ok")
      BY <1>9 DEF NoReply, TimedOut, Refused
    <3>3. (client[g].awaits.op = "Status" /\ client[g].reply.is = "Ok") =>
             client[g].reply.state # "committed"
      BY <1>9 DEF Unrefused
    <3> QED BY <2>1, <3>1, <3>2, <3>3 DEF ConfirmedInv, SamePage
  <2>4. CommittingInv(g)'
    <3>1. (open' /\ Saving(g)' /\ client'[g].awaits.op = "Status" /\ client'[g].reply.is = "Error")
            => client'[g].reply = TimedOut
      BY SMTT(30), <1>1, <1>6, <2>1 DEF Local, CommittingInv, SamePage
    <3> SUFFICES ASSUME Saving(g), client[g].awaits.op = "Commit" \/ (client[g].awaits.op = "Status" /\ Unrefused(g))
                 PROVE  CommittingInv(g)'
      BY <1>6, <2>1, <3>1 DEF CommittingInv, SamePage, Unrefused
    <3>2. /\ Agreed(g) /\ Holds(g, n) /\ ~saves[draft].reached /\ n > 0
          /\ grant[g].retired = n /\ transfer.sequence = n
          /\ Only(g, Pending(g) \cup {c}, n - 1)
          /\ client[g].awaits.op = "Status" => client[g].error = "unknown"
          /\ client[g].awaits.op = "Commit" => client[g].reply = TimedOut
          /\ (client[g].awaits.op = "Status" /\ client[g].reply.is = "Ok") =>
               client[g].reply.state \notin {"committed", "failed"}
          /\ client[g].draft = draft /\ m = c
      <4>1. client[g].awaits.op = "Commit" => client[g].awaits = c
        BY SMTT(30), <1>1, AwaitedForms DEF Local, c
      <4> QED BY <1>9, <1>11, <4>1
    <3>3. Only(g, Pending(g) \cup {Request("Commit", g, client[g].sequence)}, client[g].sequence - 1)'
      BY <1>1, <2>1, <3>2 DEF Only, Pending, SamePage, c
    <3>4. NoCommit(g)'
      <4>1. \A o \in net : (ForGrant(o, g) /\ o.op = "Commit") => o = m
        <5>1. client[g].awaits.op = "Commit" => client[g].reply # NoReply
          BY <3>2 DEF TimedOut, Refused, NoReply
        <5> QED BY <3>2, <5>1 DEF Only, Pending
      <4> QED BY <1>1, <4>1 DEF NoCommit
    <3>5. client[g].awaits.op = "Commit" => client[g].reply.is = "Error" /\ client[g].reply.effect = "unknown"
      BY <3>2 DEF TimedOut, Refused
    <3>6. client[g].awaits.op = "Commit" => client[g].reply # NoReply
      BY <3>2 DEF TimedOut, Refused, NoReply
    <3>7. grant[g].revision = client[g].revision
      BY SMTT(30), <3>2 DEF Agreed
    <3>8. CASE next.kind = "Failed"
      BY SMTT(30), <1>1, <1>2, <1>3, <2>1, <3>1, <3>2, <3>3, <3>4, <3>5, <3>6, <3>8
         DEF CommittingInv, SamePage, Commits, next, g, draft
    <3>9. CASE next.kind = "Committed"
      BY <1>1, <1>2, <1>3, <2>1, <3>1, <3>2, <3>3, <3>4, <3>5, <3>6, <3>7, <3>9
         DEF CommittingInv, SamePage, Commits, next, g, draft
    <3> QED BY <1>3, <3>8, <3>9
  <2> QED BY <1>1, <1>4, <1>5, <1>10, <2>2, <2>3, <2>4 DEF Local, g
<1>12. CASE client[g].awaits = m /\ client[g].reply = NoReply
  <2>1. client'[g].reply = r /\ SamePage(g)
    BY <1>1, <1>12 DEF Hears
  <2>2. ReplyInv(g)'
    <3>1. r.is = "Ok" => r \in [is : {"Ok"}, revision : Nat]
      <4>1. grant[g].revision + 1 \in Nat
        <5>1. grant[g].revision \in Nat
          BY ZenonT(30), <1>2 DEF Grants
        <5> QED BY <5>1
      <4> QED BY <4>1 DEF Commits, g, next
    <3> QED BY <1>1, <1>12, <2>1, <3>1 DEF ReplyInv, SamePage
  <2>3. CommittingInv(g)' /\ ConfirmedInv(g)'
    <3> SUFFICES ASSUME Saving(g)
                 PROVE  CommittingInv(g)' /\ ConfirmedInv(g)'
      BY <1>6 DEF CommittingInv, ConfirmedInv
    <3>1. /\ Agreed(g) /\ ~saves[draft].reached /\ n > 0
          /\ grant[g].retired = n /\ transfer.sequence = n
          /\ Only(g, Pending(g) \cup {c}, n - 1)
          /\ client[g].draft = draft /\ m = c
      BY <1>9, <1>12
    <3>2. Only(g, Pending(g) \cup {Request("Commit", g, client[g].sequence)}, client[g].sequence - 1)'
      BY <1>1, <1>12, <2>1, <3>1 DEF Only, Pending, SamePage, c
    <3>3. NoCommit(g)'
      <4>1. \A o \in net : (ForGrant(o, g) /\ o.op = "Commit") => o = m
        BY <1>12, <3>1 DEF Only, Pending
      <4> QED BY <1>1, <4>1 DEF NoCommit
    <3>4. grant[g].revision = client[g].revision
      BY SMTT(30), <3>1 DEF Agreed
    <3>5. CASE next.kind = "Failed"
      BY SMTT(30), <1>1, <1>2, <1>3, <1>12, <2>1, <3>1, <3>2, <3>3, <3>5
         DEF CommittingInv, ConfirmedInv, SamePage, Commits, next, g, draft
    <3>6. CASE next.kind = "Committed"
      BY <1>1, <1>2, <1>3, <1>12, <2>1, <3>1, <3>2, <3>3, <3>4, <3>6
         DEF CommittingInv, ConfirmedInv, SamePage, Commits, next, g, draft
    <3> QED BY <1>3, <3>5, <3>6
  <2> QED BY <1>1, <1>4, <1>5, <1>10, <2>2, <2>3 DEF Local, g
<1> QED BY <1>11, <1>12

(* A commit that fails, with whatever effect on the folder. *)
LEMMA FailedCommits ==
  ASSUME IInv, NEW m \in net, OfGrant(m), m.op = "Commit", Accepts(m),
         NEW effect \in Effects,
         grant' = [grant EXCEPT ![m.grant].transfer = Failed(m.sequence, effect)],
         NEW reached \in BOOLEAN,
         saves' = [saves EXCEPT ![Uploaded(m.grant)].reached = reached],
         effect = "none" => ~reached
  PROVE  /\ Commits(m, Uploaded(m.grant), Refused(effect))
         /\ Refused(effect) \in Replies /\ Refused(effect).is = "Error"
         /\ grant'[m.grant] \in Grants /\ grant'[m.grant].transfer.kind = "Failed"
         /\ \A f \in Tickets \ {m.grant} : grant'[f] = grant[f]
         /\ saves' \in [Drafts -> Records]
<1> DEFINE g == m.grant
           draft == Uploaded(g)
           next == Failed(m.sequence, effect)
<1>1. /\ g \in Tickets /\ m \in Requests /\ m.sequence \in Nat
      /\ grant[g] \in Grants /\ draft \in Drafts
      /\ grant \in [Tickets -> Grants \cup {NoGrant}] /\ saves \in [Drafts -> Records]
  BY OfNobody, RequestForms, CommitForms DEF IInv, Types, HostTypes, ClientTypes
<1>2. /\ next \in Transfers /\ next.kind = "Failed" /\ next.sequence = m.sequence
      /\ next.effect = effect
  BY <1>1 DEF Failed, Transfers
<1> HIDE DEF next, draft, g
<1>3. grant'[g] = [grant[g] EXCEPT !.transfer = next] /\ \A f \in Tickets \ {g} : grant'[f] = grant[f]
  BY <1>1 DEF g, next
<1>4. /\ grant'[g] \in Grants /\ grant'[g].held /\ grant'[g].retired = grant[g].retired
      /\ grant'[g].transfer = next
  BY <1>1, <1>2, <1>3 DEF Grants
<1>5. saves'[draft] = [saves[draft] EXCEPT !.reached = reached]
      /\ \A d \in Drafts \ {draft} : saves'[d] = saves[d]
  BY <1>1 DEF draft, g
<1>6. /\ saves'[draft] \in Records
      /\ saves'[draft].base = saves[draft].base /\ saves'[draft].result = saves[draft].result
      /\ saves'[draft].confirmed = saves[draft].confirmed
      /\ saves'[draft].reached = reached
  BY <1>1, <1>5 DEF Records
<1>7. saves' \in [Drafts -> Records]
  BY <1>1, <1>6 DEF draft, g
<1>8. Refused(effect) \in Replies /\ Refused(effect).is = "Error" /\ Refused(effect).effect = effect
  BY DEF Refused, Replies
<1> QED BY <1>1, <1>2, <1>3, <1>4, <1>5, <1>6, <1>7, <1>8 DEF Commits, g, draft

(* A commit that fails with no effect has changed nothing.                 *)
LEMMA EndsUntouched ==
  ASSUME FolderInv, Editing, CommitDenied
  PROVE  edit.changed = {}
BY DEF FolderInv, EditInv, CommitDenied, EndsRejected, Finished

(* A commit is made of one draft, whose save is of one grant. *)
LEMMA CommitSteps ==
  ASSUME IInv, FolderInv, Editing, CommitDenied \/ Save \/ CommitUncertain,
         NEW m, m = edit.request
  PROVE  /\ m \in net /\ OfGrant(m) /\ m.op = "Commit" /\ Accepts(m)
         /\ \E r \in Replies :
              /\ r.is # "None" /\ Commits(m, Uploaded(m.grant), r)
              /\ client' = IF Awaited(m) THEN [client EXCEPT ![m.grant].reply = r] ELSE client
         /\ open' = open /\ service' = service /\ disposed' = disposed /\ chooser' = chooser
         /\ net' = net \ {m}
         /\ grant'[m.grant] \in Grants
         /\ grant'[m.grant].transfer.kind \in {"Failed", "Committed"}
         /\ \A f \in Tickets \ {m.grant} : grant'[f] = grant[f]
         /\ saves' \in [Drafts -> Records]
<1> DEFINE g == m.grant
           draft == Uploaded(g)
<1>1. m \in net /\ OfGrant(m) /\ m.op = "Commit" /\ Accepts(m) /\ edit.new = draft
  BY DEF FolderInv, Busy
<1>2. /\ g \in Tickets /\ m \in Requests /\ m.sequence \in Nat
      /\ grant[g] \in Grants /\ draft \in Drafts
      /\ grant \in [Tickets -> Grants \cup {NoGrant}] /\ saves \in [Drafts -> Records]
  BY <1>1, OfNobody, RequestForms, CommitForms DEF IInv, Types, HostTypes, ClientTypes
<1>3. saves[draft] \in Records /\ grant[g].revision \in Nat
  BY <1>2 DEF Records, Grants
<1>4. CASE CommitDenied \/ CommitUncertain
  <2> DEFINE reached == (edit.changed # {})
  <2>1. PICK effect \in Effects : CommitFails(effect) /\ (effect = "none" => CommitDenied)
    BY <1>4 DEF CommitDenied, CommitUncertain, Effects
  <2>2. /\ grant' = [grant EXCEPT ![m.grant].transfer = Failed(m.sequence, effect)]
        /\ saves' = [saves EXCEPT ![Uploaded(m.grant)].reached = reached]
        /\ client' = IF Awaited(m) THEN [client EXCEPT ![m.grant].reply = Refused(effect)] ELSE client
        /\ net' = net \ {m} /\ UNCHANGED <<open, service, disposed, chooser>>
    BY <1>1, <2>1 DEF CommitFails, CommitEnds
  <2>3. reached \in BOOLEAN /\ (effect = "none" => ~reached)
    BY <2>1, EndsUntouched
  <2> HIDE DEF reached
  <2>4. /\ Commits(m, Uploaded(m.grant), Refused(effect))
        /\ Refused(effect) \in Replies /\ Refused(effect).is = "Error"
        /\ grant'[m.grant] \in Grants /\ grant'[m.grant].transfer.kind = "Failed"
        /\ \A f \in Tickets \ {m.grant} : grant'[f] = grant[f]
        /\ saves' \in [Drafts -> Records]
    BY <1>1, <2>2, <2>3, FailedCommits
  <2> QED BY <1>1, <2>2, <2>4
<1>5. CASE Save
  <2> DEFINE revision == grant[g].revision + 1
             r == [is |-> "Ok", revision |-> revision]
             next == Committed(m.sequence, revision)
  <2>1. /\ grant' = [grant EXCEPT ![g] =
                       [held |-> TRUE, baseline |-> draft, revision |-> revision,
                        retired |-> grant[g].retired, transfer |-> next]]
        /\ client' = IF Awaited(m) THEN [client EXCEPT ![m.grant].reply = r] ELSE client
        /\ net' = net \ {m} /\ UNCHANGED <<open, service, disposed, chooser>>
        /\ saves' = [saves EXCEPT ![draft].reached = TRUE, ![draft].confirmed = revision]
    BY <1>1, <1>5 DEF Save, CommitEnds
  <2>2. /\ grant'[g] = [held |-> TRUE, baseline |-> draft, revision |-> revision,
                        retired |-> grant[g].retired, transfer |-> next]
        /\ \A f \in Tickets \ {g} : grant'[f] = grant[f]
    BY <1>2, <2>1
  <2>3. revision \in Nat
    BY <1>3
  <2>4. /\ next \in [kind : {"Committed"}, sequence : Nat, revision : Nat]
        /\ next \in Transfers /\ next.kind = "Committed" /\ next.sequence = m.sequence
        /\ next.revision = revision
    BY <1>2, <2>3 DEF Committed, Transfers
  <2>5. draft \in Inventory
    BY <1>2, ContentsAssumption DEF Inventory
  <2>6. r \in Replies /\ r.is = "Ok" /\ r \in [is : {"Ok"}, revision : {revision}]
    BY <2>3 DEF Replies
  <2> HIDE DEF next, draft, g, r, revision
  <2>7. /\ grant'[g] \in Grants /\ grant'[g].transfer = next /\ grant'[g].held
        /\ grant'[g].retired = grant[g].retired /\ grant'[g].revision = revision
        /\ grant'[g].baseline = draft
    BY <1>2, <2>2, <2>3, <2>4, <2>5 DEF Grants
  <2>8. saves'[draft] = [saves[draft] EXCEPT !.reached = TRUE, !.confirmed = revision]
        /\ \A d \in Drafts \ {draft} : saves'[d] = saves[d]
    BY <1>2, <2>1
  <2>9. /\ saves'[draft] \in Records
        /\ saves'[draft].base = saves[draft].base /\ saves'[draft].result = saves[draft].result
        /\ saves'[draft].confirmed = revision
    BY <1>3, <2>3, <2>8 DEF Records
  <2>10. saves' \in [Drafts -> Records]
    BY <1>2, <2>1, <2>8, <2>9
  <2>11. Commits(m, draft, r)
    BY <2>4, <2>6, <2>7, <2>8, <2>9 DEF Commits, g, revision
  <2> QED BY <1>1, <1>2, <2>1, <2>2, <2>4, <2>6, <2>7, <2>10, <2>11 DEF g, draft
<1> QED BY <1>4, <1>5

(* A request that is handled gives nobody a draft. *)
LEMMA HandledDraft ==
  ASSUME IInv, NEW m \in net, OfGrant(m), NEW d \in Drafts,
         \A f \in Tickets : client'[f].draft = client[f].draft,
         net' = net \ {m}, \A f \in Tickets \ {m.grant} : grant'[f] = grant[f],
         (grant'[m.grant].held /\ grant'[m.grant].transfer.kind = "Upload") =>
            \A k \in 1..Len(grant'[m.grant].transfer.chunks) :
              Owns(m.grant, grant'[m.grant].transfer.chunks[k])
  PROVE  \A f \in Tickets : Owns(f, d)' => Owns(f, d)
<1>1. ASSUME NEW f \in Tickets, f # m.grant
      PROVE  Owns(f, d)' => Owns(f, d)
  BY <1>1 DEF Owns
<1>2. Owns(m.grant, d)' => Owns(m.grant, d)
  BY SMTT(30), OfNobody DEF Owns
<1> QED BY <1>1, <1>2

(* All that a handler does, but for the drafts. *)
Handles(m) ==
  LET g == m.grant IN
  /\ StepOf(g) /\ SameChooser /\ Follows(g)
  /\ client[g].stage = "Gone" => client'[g] = client[g]
  /\ client'[g].draft = client[g].draft
  /\ net' = net \ {m}
  /\ grant'[g] = grant[g] \/ (grant[g].held /\ grant'[g] \in Grants) \/ grant'[g] = NoGrant
  /\ DOMAIN grant' = Tickets /\ grant' = [f \in Tickets |-> grant'[f]]
  /\ ClientTypes'
  /\ Local(g)'
  /\ (grant'[g].held /\ grant'[g].transfer.kind = "Upload") =>
        \A k \in 1..Len(grant'[g].transfer.chunks) : Owns(g, grant'[g].transfer.chunks[k])

LEMMA HandledHolds ==
  ASSUME IInv, NEW m \in net, OfGrant(m), Handles(m)
  PROVE  /\ Types' /\ PickerInv' /\ \A f \in Tickets : TicketInv(f)' /\ Local(f)'
         /\ open' = open
         /\ \A f \in Tickets, d \in Drafts : Owns(f, d)' => Owns(f, d)
         /\ \A f \in Tickets : client'[f].draft = client[f].draft
<1> DEFINE g == m.grant
<1>1. g \in Tickets /\ client[g].stage # "None" /\ ~Unused(g)
  BY OfNobody
<1>2. StepOf(g) /\ SameChooser /\ Follows(g) /\ Local(g)'
  BY DEF Handles
<1>3. /\ grant[g] \in Grants \cup {NoGrant} /\ grant'[g] \in Grants \cup {NoGrant}
      /\ grant[g] = NoGrant => grant'[g] = NoGrant
      /\ grant'[g].held => grant[g].held
  BY <1>1, GrantForms DEF Handles, IInv, Types, HostTypes
<1>4. \A f \in Tickets : Local(f)'
  BY <1>1, <1>2, OthersLocal
<1>5. PickerInv' /\ \A f \in Tickets : TicketInv(f)'
  <2>1. client[g].stage = "Gone" => client'[g] = client[g]
    BY DEF Handles
  <2> QED BY <1>1, <1>2, <1>3, <2>1, OthersTickets
<1>6. \A f \in Tickets : client'[f].draft = client[f].draft
  BY DEF Handles, StepOf
<1>7. \A f \in Tickets, d \in Drafts : Owns(f, d)' => Owns(f, d)
  <2>1. \A f \in Tickets \ {g} : grant'[f] = grant[f]
    BY DEF Handles, StepOf
  <2> QED BY <1>6, <2>1, HandledDraft DEF Handles
<1>8. Types'
  <2>1. \A f \in Tickets : grant'[f] \in Grants \cup {NoGrant}
    BY <1>3 DEF IInv, Types, HostTypes, Handles, StepOf
  <2>2. grant' \in [Tickets -> Grants \cup {NoGrant}]
    BY <2>1 DEF Handles
  <2> QED BY <2>2 DEF Handles, StepOf, IInv, Types, HostTypes
<1> QED BY <1>4, <1>5, <1>6, <1>7, <1>8 DEF Handles, StepOf

LEMMA HandledKeepsDrafts ==
  ASSUME IInv, NEW m \in net, OfGrant(m), Handles(m), saves' = saves
  PROVE  IInv'
<1>1. \A d \in Drafts : DraftInv(d)'
  BY HandledHolds, DraftKept DEF IInv
<1> QED BY <1>1, HandledHolds DEF IInv

LEMMA CommitHolds ==
  ASSUME IInv, FolderInv, Editing, CommitDenied \/ Save \/ CommitUncertain
  PROVE  IInv'
<1>0. PICK m : m = edit.request
  OBVIOUS
<1> DEFINE g == m.grant
           draft == Uploaded(g)
<1>1. /\ m \in net /\ OfGrant(m) /\ m.op = "Commit" /\ Accepts(m)
      /\ open' = open /\ service' = service /\ disposed' = disposed /\ chooser' = chooser
      /\ net' = net \ {m}
      /\ grant'[g] \in Grants
      /\ grant'[g].transfer.kind \in {"Failed", "Committed"}
      /\ \A f \in Tickets \ {g} : grant'[f] = grant[f]
      /\ saves' \in [Drafts -> Records]
  BY <1>0, CommitSteps
<1>2. PICK r \in Replies :
        /\ r.is # "None" /\ Commits(m, draft, r)
        /\ client' = IF Awaited(m) THEN [client EXCEPT ![g].reply = r] ELSE client
  BY <1>0, CommitSteps
<1>3. /\ g \in Tickets /\ draft \in Drafts /\ Owns(g, draft) /\ grant[g].held
      /\ saves[draft].result \in {"Saving", "Unknown"}
      /\ \A d \in Drafts \ {draft} : saves'[d] = saves[d]
      /\ saves'[draft].result = saves[draft].result
  BY <1>1, <1>2, OfNobody, CommitForms DEF Commits
<1>4. Local(g)'
  BY <1>1, <1>2, CommitsLocal
<1>5. /\ client' \in [Tickets -> Entries]
      /\ \A f \in Tickets \ {g} : client'[f] = client[f]
      /\ client[g].stage = "Gone" => client'[g] = client[g]
      /\ Hears(g, m, r)
  BY <1>1, <1>2, Answered
<1>6. \A f \in Tickets \ {g} : ~Owns(f, draft)
  BY <1>3 DEF IInv, DraftInv
<1>7. DOMAIN grant' = Tickets /\ grant' = [f \in Tickets |-> grant'[f]]
  BY DEF CommitDenied, CommitUncertain, CommitFails, Save, IInv, Types, HostTypes
<1>8. StepOf(g) /\ SameChooser /\ Follows(g) /\ ClientTypes' /\ client'[g].draft = client[g].draft
  <2>1. ClientTypes'
    BY <1>1, <1>5 DEF IInv, Types, ClientTypes
  <2> QED BY <1>1, <1>3, <1>5, <1>6, <2>1 DEF StepOf, SameChooser, Follows, Hears, SamePage
<1>9. Handles(m)
  BY <1>1, <1>3, <1>4, <1>5, <1>7, <1>8 DEF Handles
<1>10. /\ Types' /\ PickerInv' /\ \A f \in Tickets : TicketInv(f)' /\ Local(f)'
       /\ \A f \in Tickets, d \in Drafts : Owns(f, d)' => Owns(f, d)
       /\ \A f \in Tickets : client'[f].draft = client[f].draft
  BY <1>1, <1>9, HandledHolds
<1>11. ASSUME NEW d \in Drafts
       PROVE  DraftInv(d)'
  <2>1. CASE d = draft
    BY <1>3, <1>10, <2>1 DEF IInv, DraftInv
  <2>2. CASE d # draft
    BY <1>1, <1>3, <1>10, <2>2, DraftKept DEF IInv
  <2> QED BY <2>1, <2>2
<1> QED BY <1>10, <1>11 DEF IInv

(* The handlers that answer without an effect on the drafts. *)
LEMMA AnswersHold ==
  ASSUME IInv, NEW m \in net, OfGrant(m), NEW r \in Replies, r.is # "None", Answer(m, r),
         UNCHANGED <<open, service>>,
         grant' \in [Tickets -> Grants \cup {NoGrant}],
         \A f \in Tickets \ {m.grant} : grant'[f] = grant[f],
         \/ grant'[m.grant] = grant[m.grant]
         \/ grant[m.grant].held /\ grant'[m.grant] \in Grants
         \/ grant'[m.grant] = NoGrant,
         Local(m.grant)',
         (grant'[m.grant].held /\ grant'[m.grant].transfer.kind = "Upload") =>
            \A k \in 1..Len(grant'[m.grant].transfer.chunks) :
              Owns(m.grant, grant'[m.grant].transfer.chunks[k])
  PROVE  IInv'
<1>1. /\ StepOf(m.grant) /\ SameChooser /\ Follows(m.grant)
      /\ client[m.grant].stage = "Gone" => client'[m.grant] = client[m.grant]
      /\ ClientTypes'
  BY AnswerIsAStep
<1>2. saves' = saves /\ net' = net \ {m} /\ Hears(m.grant, m, r)
  BY Answered DEF Answer
<1>3. Handles(m)
  BY <1>1, <1>2 DEF Handles, Hears, SamePage
<1> QED BY <1>2, <1>3, HandledKeepsDrafts

LEMMA UnchangedGrant ==
  ASSUME IInv, NEW m \in net, OfGrant(m), NEW r \in Replies, r.is # "None", Answer(m, r),
         UNCHANGED <<open, service, grant>>, Local(m.grant)'
  PROVE  IInv'
<1>1. grant' \in [Tickets -> Grants \cup {NoGrant}] /\ grant' = grant
  BY DEF IInv, Types, HostTypes
<1>2. (grant'[m.grant].held /\ grant'[m.grant].transfer.kind = "Upload") =>
            \A k \in 1..Len(grant'[m.grant].transfer.chunks) :
              Owns(m.grant, grant'[m.grant].transfer.chunks[k])
  BY <1>1 DEF Owns
<1> QED BY <1>1, <1>2, AnswersHold

(* A grant that changes into one without chunks. *)
LEMMA ChangedGrant ==
  ASSUME IInv, NEW m \in net, OfGrant(m), NEW r \in Replies, r.is # "None", Answer(m, r),
         UNCHANGED <<open, service>>, NEW held,
         grant' = [grant EXCEPT ![m.grant] = held], Local(m.grant)',
         held = NoGrant \/ (grant[m.grant].held /\ held \in Grants),
         held.held => held.transfer.kind # "Upload" \/ held.transfer.chunks = << >>
  PROVE  IInv'
<1>1. m.grant \in Tickets
  BY OfNobody
<1>2. /\ grant' \in [Tickets -> Grants \cup {NoGrant}]
      /\ \A f \in Tickets \ {m.grant} : grant'[f] = grant[f]
      /\ grant'[m.grant] = held
  BY <1>1 DEF IInv, Types, HostTypes
<1>3. (held.held /\ held.transfer.kind = "Upload") => 1..Len(held.transfer.chunks) = {}
  BY EmptySeq
<1> QED BY <1>2, <1>3, AnswersHold

LEMMA RequestsHold ==
  ASSUME IInv, NEW m \in net, OfGrant(m),
         \/ Refuse(m) \/ HandleCheck(m) \/ HandleRevoke(m)
         \/ SnapshotFails(m) \/ SnapshotUncertain(m) \/ HandleSnapshot(m)
         \/ HandleRead(m) \/ HandleBegin(m) \/ HandleWrite(m)
         \/ HandleStatus(m) \/ HandleRelease(m)
  PROVE  IInv'
<1> DEFINE g == m.grant
           transfer == grant[g].transfer
<1>1. g \in Tickets /\ Local(g) /\ grant[g] \in Grants \cup {NoGrant} /\ m \in Requests
  BY OfNobody DEF IInv, Types, HostTypes
<1>2. Done \in Replies /\ Done.is = "Ok"
      /\ \A effect \in Effects : Refused(effect) \in Replies /\ Refused(effect).is = "Error"
  BY DEF Done, Refused, Replies
<1>3. CASE Refuse(m)
  BY <1>2, <1>3, RefusesLocal, UnchangedGrant DEF Refuse, Effects, host
<1>4. CASE HandleCheck(m)
  BY <1>2, <1>4, ChecksLocal, UnchangedGrant DEF HandleCheck, host
<1>5. CASE HandleRevoke(m)
  BY <1>2, <1>5, RevokesLocal, ChangedGrant, GrantForms DEF HandleRevoke
<1>6. CASE SnapshotFails(m) \/ SnapshotUncertain(m)
  <2>1. PICK effect \in Effects : Answer(m, Refused(effect))
    BY <1>6 DEF SnapshotFails, SnapshotUncertain, Effects
  <2>2. UNCHANGED <<open, service, grant>>
    BY <1>6 DEF SnapshotFails, SnapshotUncertain, host
  <2> QED BY <1>2, <1>6, <2>1, <2>2, SnapshotFailsLocal, UnchangedGrant
<1>7. CASE HandleSnapshot(m)
  <2> DEFINE revision == grant[g].revision + 1
             r == [is |-> "Ok", revision |-> revision]
  <2>1. /\ Local(g)' /\ grant[g].held /\ grant'[g] \in Grants
    BY <1>7, SnapshotsLocal
  <2>2. revision \in Nat
    <3>1. grant[g].revision \in Nat
      BY <1>1, <2>1, GrantForms DEF Grants
    <3> QED BY <3>1
  <2>3. r \in Replies /\ r.is = "Ok"
    BY <2>2 DEF Replies
  <2>6. PICK content \in Inventories :
          grant' = [grant EXCEPT ![m.grant] =
                      [held |-> TRUE, baseline |-> content,
                       revision |-> revision, retired |-> m.sequence,
                       transfer |-> Download(m.sequence, content, 0)]]
    BY <1>7 DEF HandleSnapshot, Readable
  <2> DEFINE held == [held |-> TRUE, baseline |-> content, revision |-> revision,
                      retired |-> m.sequence, transfer |-> Download(m.sequence, content, 0)]
  <2>4. /\ grant' = [grant EXCEPT ![m.grant] = held]
        /\ Answer(m, r) /\ UNCHANGED <<open, service>>
    BY <1>7, <2>6 DEF HandleSnapshot
  <2>5. held.transfer.kind = "Download" /\ held \in Grants
    BY <1>1, <2>1, <2>4 DEF Download, IInv, Types, HostTypes
  <2> HIDE DEF held, r
  <2> QED BY <2>1, <2>3, <2>4, <2>5, ChangedGrant
<1>8. CASE HandleRead(m)
  <2> DEFINE r == [is |-> "Ok", content |-> transfer.content]
             held == [grant[g] EXCEPT !.transfer.offset = m.offset + 1]
  <2>1. /\ Local(g)' /\ grant[g].held /\ grant'[g] \in Grants
    BY <1>8, ReadsLocal
  <2>2. transfer.kind = "Download" /\ transfer \in Transfers
    BY <1>1, <1>8, <2>1, GrantForms, RequestForms DEF HandleRead, Accepts, AcceptsRead, IsActive,
       Grants
  <2>3. r \in Replies /\ r.is = "Ok"
    BY <2>2, TransferForms DEF Replies
  <2>4. /\ grant' = [grant EXCEPT ![m.grant] = held]
        /\ Answer(m, r) /\ UNCHANGED <<open, service>>
    BY <1>1, <1>8 DEF HandleRead, IInv, Types, HostTypes
  <2>5. held \in Grants /\ held.transfer.kind = "Download"
    <3>1. held = grant'[g]
      BY <1>1, <2>4 DEF IInv, Types, HostTypes
    <3>2. held.transfer = [transfer EXCEPT !.offset = m.offset + 1]
      BY <1>1, <2>1, GrantForms DEF Grants
    <3>3. transfer \in [kind : {"Download"}, sequence : Nat, content : Inventories, offset : Nat]
      BY <2>2, TransferForms
    <3>4. [transfer EXCEPT !.offset = m.offset + 1].kind = "Download"
      BY <3>3
    <3> QED BY <2>1, <3>1, <3>2, <3>4
  <2> HIDE DEF held, r
  <2> QED BY <2>1, <2>3, <2>4, <2>5, ChangedGrant
<1>9. CASE HandleBegin(m)
  <2> DEFINE held == [grant[g] EXCEPT !.retired = m.sequence, !.transfer = Upload(m.sequence, << >>)]
  <2>1. /\ Local(g)' /\ grant[g].held /\ grant'[g] \in Grants
    BY <1>9, BeginsLocal
  <2>2. /\ grant' = [grant EXCEPT ![m.grant] = held]
        /\ Answer(m, Done) /\ UNCHANGED <<open, service>>
    BY <1>1, <1>9 DEF HandleBegin, IInv, Types, HostTypes
  <2>3. held \in Grants /\ held.transfer.chunks = << >>
    <3>1. held = grant'[g]
      BY ZenonT(30), <1>1, <2>2 DEF IInv, Types, HostTypes
    <3>2. held.transfer = Upload(m.sequence, << >>)
      BY <1>1, <2>1, GrantForms DEF Grants
    <3> QED BY <2>1, <3>1, <3>2 DEF Upload
  <2> HIDE DEF held
  <2> QED BY <1>2, <2>1, <2>2, <2>3, ChangedGrant
<1>10. CASE HandleWrite(m)
  <2>1. /\ Local(g)' /\ grant[g].held /\ grant'[g] \in Grants
        /\ grant'[g].transfer.chunks = Append(transfer.chunks, m.draft)
    BY <1>10, WritesLocal
  <2>2. m \in Writes /\ m.op = "Write"
    BY <1>1, <1>10, RequestForms DEF HandleWrite
  <2>3. transfer.kind = "Upload" /\ transfer.chunks \in Seq(Drafts) /\ m.draft \in Drafts
    <3>1. transfer.kind = "Upload" /\ transfer \in Transfers
      BY <1>1, <1>10, <2>1, <2>2, GrantForms DEF HandleWrite, Accepts, AcceptsWrite, IsActive,
         Grants
    <3> QED BY SMTT(30), <2>2, <3>1, TransferForms DEF Writes
  <2>4. \A k \in 1..Len(grant'[g].transfer.chunks) : Owns(g, grant'[g].transfer.chunks[k])
    <3> DEFINE chunks == transfer.chunks
               more == Append(chunks, m.draft)
    <3>1. Len(chunks) \in Nat
      BY <2>3, LenProperties
    <3>2. /\ Len(more) = Len(chunks) + 1
          /\ \A k \in 1..Len(chunks) : more[k] = chunks[k]
          /\ more[Len(chunks) + 1] = m.draft
      BY SMTT(30), <2>3, Appended
    <3>5. grant'[g].transfer.chunks = more
      BY <2>1
    <3>3. Owns(g, m.draft)
      BY <1>1, <2>2, OfNobody DEF Owns
    <3>4. \A k \in 1..Len(chunks) : Owns(g, chunks[k])
      BY ZenonT(30), <2>1, <2>3 DEF Owns
    <3> HIDE DEF chunks, more, g
    <3> QED BY <3>1, <3>2, <3>3, <3>4, <3>5
  <2>5. /\ grant' \in [Tickets -> Grants \cup {NoGrant}]
        /\ \A f \in Tickets \ {g} : grant'[f] = grant[f]
        /\ Answer(m, Done) /\ UNCHANGED <<open, service>>
    BY <1>1, <1>10, <2>1 DEF HandleWrite, IInv, Types, HostTypes
  <2> QED BY ZenonT(30), <1>2, <2>1, <2>4, <2>5, AnswersHold
<1>11. CASE HandleStatus(m)
  <2>1. Answer(m, StatusOf(transfer)) /\ UNCHANGED host /\ Accepts(m) /\ m.op = "Status"
    BY <1>11 DEF HandleStatus, StatusOf
  <2>2. transfer \in Transfers
    BY <1>1, <2>1, GrantForms DEF Accepts, Grants
  <2>3. StatusOf(transfer) \in Replies /\ StatusOf(transfer).is = "Ok"
    BY <2>2, StatusForms
  <2> QED BY <1>11, <2>1, <2>3, StatusLocal, UnchangedGrant DEF host
<1>12. CASE HandleRelease(m)
  <2> DEFINE held == [grant[g] EXCEPT !.retired = m.sequence,
                                      !.transfer = IF transfer.kind = "Failed" /\ transfer.effect = "unknown"
                                                   THEN transfer ELSE Idle]
  <2>1. /\ Local(g)' /\ grant[g].held /\ grant'[g] \in Grants
        /\ grant'[g].transfer.kind \in {"Idle", "Failed"}
    BY <1>12, ReleasesLocal
  <2>2. /\ grant' = [grant EXCEPT ![m.grant] = held]
        /\ Answer(m, Done) /\ UNCHANGED <<open, service>>
    BY <1>1, <1>12 DEF HandleRelease, IInv, Types, HostTypes
  <2>3. held = grant'[g]
    BY <1>1, <2>2 DEF IInv, Types, HostTypes
  <2> HIDE DEF held
  <2> QED BY <1>2, <2>1, <2>2, <2>3, ChangedGrant
<1> QED BY <1>3, <1>4, <1>5, <1>6, <1>7, <1>8, <1>9, <1>10, <1>11, <1>12
-----------------------------------------------------------------------------
(* The picker and the session.                                             *)

(* A step that changes nothing of a grant or of the client's entries. *)
Elsewhere ==
  /\ client' = client /\ saves' = saves /\ open' = open
  /\ \A m \in net' : m \in net \/ ~OfGrant(m)

LEMMA ElsewhereHolds ==
  ASSUME IInv, Elsewhere, grant' = grant
  PROVE  (\A g \in Tickets : Local(g)') /\ (\A d \in Drafts : DraftInv(d)')
<1>1. ASSUME NEW g \in Tickets
      PROVE  Local(g)'
  <2>1. Keeps(g)
    BY DEF Elsewhere, Keeps, ForGrant
  <2> QED BY <2>1, LocalKept DEF IInv
<1>2. ASSUME NEW d \in Drafts
      PROVE  DraftInv(d)'
  <2>1. \A f \in Tickets : Owns(f, d)' => Owns(f, d)
    BY DEF Elsewhere, Owns, ForGrant
  <2> QED BY <2>1, DraftKept DEF IInv, Elsewhere
<1> QED BY <1>1, <1>2

LEMMA OfThePicker ==
  ASSUME IInv, NEW m \in net, OfChooser(m)
  PROVE  /\ m \in Asks /\ ~OfGrant(m)
         /\ m.op = "ChooseWrite" =>
              /\ service.next + 1 \in Tickets
              /\ service.dialogs = {} /\ m.attempt = chooser.attempt
              /\ \A o \in net : o.op = "ChooseWrite" => o = m
              /\ chooser.at \notin {"CheckSession", "Opening"}
              /\ disposed \/ (chooser.at = "ChooseWrite" /\ chooser.reply = NoReply)
<1>1. \A o \in net : o.op = "ChooseWrite" => o \in Asks
  BY RequestForms, OtherForms DEF IInv, Types, HostTypes
<1>2. m \in Asks /\ ~OfGrant(m)
  BY RequestForms, OtherForms DEF IInv, Types, HostTypes
<1>3. ASSUME m.op = "ChooseWrite"
      PROVE  /\ service.dialogs = {} /\ m.attempt = chooser.attempt
             /\ service.next < chooser.attempt
             /\ \A o \in net : o.op = "ChooseWrite" => o.attempt = m.attempt
             /\ chooser.at \notin {"CheckSession", "Opening"}
             /\ disposed \/ (chooser.at = "ChooseWrite" /\ chooser.reply = NoReply)
  BY <1>3 DEF IInv, PickerInv, Waiting
<1>4. service.next \in Nat /\ chooser.attempt \in 0..MaxTickets
  BY DEF IInv, Types, HostTypes, ClientTypes
<1>5. (service.next < chooser.attempt) => service.next + 1 \in Tickets
  BY <1>4, BoundsAssumption DEF Tickets
<1>6. \A o \in Asks : (o.op = m.op /\ o.attempt = m.attempt) => o = m
  BY <1>2 DEF Asks
<1> QED BY <1>1, <1>2, <1>3, <1>5, <1>6

LEMMA ChooserForms ==
  /\ NoReply \in Choices /\ Done \in Choices /\ NoReply.is = "None" /\ Done.is = "Ok"
  /\ \A effect \in Effects : Refused(effect) \in Choices /\ Refused(effect).is = "Error"
  /\ \A t \in 0..MaxTickets : [is |-> "Ok", ticket |-> t] \in Choices
  /\ \A effect \in Effects : Refused(effect) # NoReply
  /\ Done # NoReply
  /\ \A r \in Choices : r.is = "None" <=> r = NoReply
BY DEF Choices, NoReply, Done, Refused, Effects

LEMMA AnsweredChooser ==
  ASSUME ClientTypes, NEW op, NEW attempt, NEW r \in Choices, AnswerChooser(op, attempt, r)
  PROVE  /\ ClientTypes'
         /\ Elsewhere <=> (\A m \in net' : m \in net \/ ~OfGrant(m))
         /\ chooser'.at = chooser.at /\ chooser'.attempt = chooser.attempt
         /\ chooser'.reply = chooser.reply
              \/ (chooser.at = op /\ chooser.reply = NoReply /\ chooser'.reply = r)
         /\ open' = open /\ disposed' = disposed
         /\ client' = client /\ saves' = saves
BY DEF AnswerChooser, ClientTypes, Elsewhere

(* What the picker's tickets are in the next state. *)
LEMMA TicketsKept ==
  ASSUME IInv, client' = client, disposed' = disposed, chooser'.at = chooser.at,
         \A m \in net' : m \in net \/ ~OfGrant(m),
         service'.next = service.next, service'.dialogs \subseteq service.dialogs,
         NEW g \in Tickets, grant'[g] = grant[g], open' = open
  PROVE  TicketInv(g)'
BY DEF IInv, TicketInv, Fresh, Unused, ForGrant

LEMMA RequestsOfPickerHold ==
  ASSUME IInv, NEW m \in net, OfChooser(m),
         HandleChooserCheck(m) \/ RefuseChoose(m) \/ HandleCancelPicker(m)
  PROVE  IInv'
<1> DEFINE r == IF open /\ m.op = "CheckSession" THEN Done ELSE Refused("none")
<1>1. r \in Choices /\ r # NoReply
  BY ChooserForms DEF Effects
<1>2. /\ net' = net \ {m} /\ grant' = grant /\ Elsewhere
      /\ ClientTypes' /\ disposed' = disposed
      /\ chooser'.at = chooser.at /\ chooser'.attempt = chooser.attempt
      /\ service'.next = service.next /\ service'.dialogs = service.dialogs
      /\ service' \in [next : Nat, picker : Nat,
                       dialogs : SUBSET [ticket : Tickets, attempt : Nat]]
      /\ service'.picker \in 0..service'.next
      /\ \/ chooser'.reply = chooser.reply
         \/ chooser.at = "CheckSession" /\ m.op = "CheckSession"
         \/ chooser'.reply = Refused("none") /\ m.op = "ChooseWrite"
  <2>1. CASE HandleChooserCheck(m)
    <3>1. AnswerChooser("CheckSession", m.attempt, r)
      BY <2>1 DEF HandleChooserCheck
    <3> HIDE DEF r
    <3> QED BY <1>1, <2>1, <3>1, AnsweredChooser DEF HandleChooserCheck, IInv, Types, HostTypes
  <2>2. CASE RefuseChoose(m)
    <3>1. AnswerChooser("ChooseWrite", m.attempt, r) /\ r = Refused("none")
      BY <2>2 DEF RefuseChoose
    <3> HIDE DEF r
    <3> QED BY <1>1, <2>2, <3>1, AnsweredChooser DEF RefuseChoose, IInv, Types, HostTypes
  <2>3. CASE HandleCancelPicker(m)
    BY <2>3 DEF HandleCancelPicker, IInv, Types, HostTypes, ClientTypes, Elsewhere, NoTicket
  <2> QED BY <2>1, <2>2, <2>3
<1>3. Types'
  BY <1>2 DEF IInv, Types, HostTypes, Elsewhere
<1>4. PickerInv'
  <2>1. \A o \in net' : o.op = "ChooseWrite" => Waiting'
    BY <1>2, OfThePicker DEF IInv, PickerInv, Waiting
  <2>2. \A x \in service.dialogs : Waiting'
    BY <1>2, OfThePicker DEF IInv, PickerInv, Waiting
  <2>3. (chooser'.at = "ChooseWrite" /\ chooser'.reply.is = "Ok") => chooser'.reply = chooser.reply
    BY <1>2, ChooserForms DEF Effects
  <2> QED BY <1>2, <2>1, <2>2, <2>3 DEF IInv, PickerInv, Elsewhere
<1>5. \A g \in Tickets : TicketInv(g)'
  BY <1>2, TicketsKept DEF Elsewhere
<1> QED BY <1>2, <1>3, <1>4, <1>5, ElsewhereHolds DEF IInv

LEMMA BeginChooseHolds ==
  ASSUME IInv, NEW m \in net, OfChooser(m), BeginChoose(m)
  PROVE  IInv'
<1> DEFINE ticket == service.next + 1
<1>1. /\ m \in Asks /\ ticket \in Tickets /\ service.dialogs = {} /\ m.attempt = chooser.attempt
      /\ \A o \in net' : o.op # "ChooseWrite"
      /\ chooser.at \notin {"CheckSession", "Opening"}
      /\ disposed \/ (chooser.at = "ChooseWrite" /\ chooser.reply = NoReply)
  BY OfThePicker DEF BeginChoose
<1>2. /\ net' = net \ {m} /\ grant' = grant /\ chooser' = chooser /\ disposed' = disposed
      /\ saves' = saves /\ client' = client /\ open' = open
      /\ service' = [next |-> ticket, picker |-> ticket,
                     dialogs |-> {[ticket |-> ticket, attempt |-> chooser.attempt]}]
  BY <1>1 DEF BeginChoose
<1>3. service.next \in Nat /\ ticket \in Nat /\ chooser.attempt \in Nat
      /\ service.next < chooser.attempt
  BY DEF IInv, PickerInv, BeginChoose, Types, HostTypes, ClientTypes
<1>4. Types'
  BY <1>1, <1>2, <1>3 DEF IInv, Types, HostTypes, ClientTypes
<1>5. PickerInv'
  BY <1>1, <1>2, <1>3, ChooserForms DEF IInv, PickerInv, Waiting
<1>6. ASSUME NEW g \in Tickets
      PROVE  TicketInv(g)'
  <2>1. (g > ticket \/ g = ticket) => g > service.next
    BY <1>3 DEF Tickets
  <2>2. (g > service'.next \/ \E x \in service'.dialogs : x.ticket = g) => Unused(g)
    BY <1>2, <2>1 DEF IInv, TicketInv
  <2> QED BY <1>1, <1>2, <2>2 DEF IInv, TicketInv, Fresh, Unused
<1> QED BY <1>2, <1>4, <1>5, <1>6, ElsewhereHolds DEF IInv, Elsewhere

Pickers == [next : Nat, picker : Nat, dialogs : SUBSET [ticket : Tickets, attempt : Nat]]

(* The dialog that the user answers is the only one. *)
LEMMA TheDialog ==
  ASSUME IInv, NEW x \in service.dialogs
  PROVE  /\ x \in [ticket : Tickets, attempt : Nat]
         /\ x.ticket = service.next /\ service.next \in Tickets
         /\ service.dialogs \ {x} = {}
         /\ Unused(x.ticket)
         /\ disposed \/ (chooser.at = "ChooseWrite" /\ chooser.reply = NoReply)
         /\ \A m \in net : m.op # "ChooseWrite"
<1>1. \A y \in service.dialogs :
        /\ y \in [ticket : Tickets, attempt : Nat]
        /\ y.ticket = service.next /\ y.attempt = chooser.attempt
  BY DEF IInv, Types, HostTypes, PickerInv
<1>2. service.dialogs \ {x} = {}
  BY <1>1
<1>3. Unused(x.ticket)
  BY <1>1 DEF IInv, TicketInv
<1> QED BY <1>1, <1>2, <1>3 DEF IInv, PickerInv, Waiting

LEMMA ClosedDialog ==
  ASSUME IInv, NEW x \in service.dialogs, NEW r \in Choices, r # NoReply, CloseDialog(x, r),
         (r.is = "Ok") => r.ticket \in {NoTicket, x.ticket} /\ r \in [is : {"Ok"}, ticket : {NoTicket, x.ticket}],
         (r.is = "Ok" /\ r.ticket # NoTicket /\ open) => grant'[x.ticket].held
  PROVE  /\ ClientTypes' /\ Elsewhere /\ net' = net
         /\ chooser'.at = chooser.at /\ chooser'.attempt = chooser.attempt
         /\ open' = open /\ disposed' = disposed
         /\ client' = client /\ saves' = saves
         /\ service'.next = service.next /\ service'.dialogs = {}
         /\ service' \in [next : Nat, picker : Nat,
                          dialogs : SUBSET [ticket : Tickets, attempt : Nat]]
         /\ service'.picker \in 0..service'.next
         /\ PickerInv'
<1>1. AnswerChooser("ChooseWrite", x.attempt, r) /\ net' = net
  BY DEF CloseDialog
<1>2. /\ ClientTypes' /\ Elsewhere
      /\ chooser'.at = chooser.at /\ chooser'.attempt = chooser.attempt
      /\ chooser'.reply = chooser.reply
           \/ (chooser.at = "ChooseWrite" /\ chooser.reply = NoReply /\ chooser'.reply = r)
      /\ open' = open /\ disposed' = disposed
      /\ client' = client /\ saves' = saves
  BY <1>1, AnsweredChooser DEF IInv, Types
<1>3. /\ service'.next = service.next /\ service'.dialogs = {}
      /\ service' \in [next : Nat, picker : Nat,
                       dialogs : SUBSET [ticket : Tickets, attempt : Nat]]
      /\ service'.picker \in 0..service'.next
  <2> DEFINE picker == IF service.picker = x.ticket THEN NoTicket ELSE service.picker
  <2>1. picker \in 0..service.next /\ service \in Pickers
    BY DEF IInv, Types, HostTypes, NoTicket, Pickers
  <2>2. service' = [service EXCEPT !.dialogs = {}, !.picker = picker]
    BY TheDialog, <2>1 DEF CloseDialog, Pickers
  <2> HIDE DEF picker
  <2>3. service.next \in Nat /\ picker \in Nat
    BY <2>1 DEF Pickers
  <2>4. service' = [next |-> service.next, picker |-> picker, dialogs |-> {}]
    BY <2>1, <2>2 DEF Pickers
  <2> QED BY <2>1, <2>3, <2>4
<1>4. PickerInv'
  <2>1. \A m \in net' : m.op # "ChooseWrite"
    BY <1>1, TheDialog
  <2>2. (chooser'.at = "ChooseWrite" /\ chooser'.reply.is = "Ok") =>
          /\ chooser'.reply \in [is : {"Ok"}, ticket : {NoTicket, service'.next}]
          /\ chooser'.reply.ticket # NoTicket =>
               /\ client'[service'.next].stage = "None"
               /\ open' => grant'[service'.next].held
    <3> HAVE chooser'.at = "ChooseWrite" /\ chooser'.reply.is = "Ok"
    <3>1. ~disposed
      BY <1>2 DEF IInv, PickerInv
    <3>2. client[service.next].stage = "None"
      BY <3>1, TheDialog DEF Unused
    <3>3. chooser.reply = NoReply /\ chooser'.reply = r
      BY <1>2, <3>1, TheDialog, ChooserForms
    <3> QED BY <1>2, <1>3, <3>2, <3>3, TheDialog
  <2> QED BY <1>2, <1>3, <2>1, <2>2 DEF IInv, PickerInv
<1> QED BY <1>1, <1>2, <1>3, <1>4

LEMMA DialogsHold ==
  ASSUME IInv, NEW x \in service.dialogs, Choose(x) \/ Dismiss(x) \/ CannotOpen(x)
  PROVE  IInv'
<1> DEFINE t == x.ticket
           some == [is |-> "Ok", ticket |-> t]
           none == [is |-> "Ok", ticket |-> NoTicket]
<1>1. t \in Tickets /\ t \in 0..MaxTickets /\ Unused(t) /\ service.dialogs \ {x} = {}
  BY TheDialog, BoundsAssumption DEF Tickets
<1>2. /\ some \in Choices /\ none \in Choices /\ some # NoReply /\ none # NoReply
      /\ some \in [is : {"Ok"}, ticket : {NoTicket, t}] /\ none \in [is : {"Ok"}, ticket : {NoTicket, t}]
      /\ some.ticket = t /\ none.ticket = NoTicket
      /\ Refused("none") \in Choices /\ Refused("none") # NoReply /\ Refused("none").is = "Error"
  BY <1>1, ChooserForms, BoundsAssumption DEF NoTicket, NoReply, Effects
<1>3. PICK r \in {some, none, Refused("none")} :
        /\ CloseDialog(x, r)
        /\ r \in {none, Refused("none")} \/ grant' = [grant EXCEPT ![t] = NewGrant]
  BY DEF Choose, Dismiss, CannotOpen
<1> HIDE DEF some, none
<1>4. /\ ClientTypes' /\ Elsewhere /\ net' = net
      /\ chooser'.at = chooser.at
      /\ open' = open /\ disposed' = disposed
      /\ client' = client /\ saves' = saves
      /\ service'.next = service.next /\ service'.dialogs = {}
      /\ service' \in [next : Nat, picker : Nat,
                       dialogs : SUBSET [ticket : Tickets, attempt : Nat]]
      /\ service'.picker \in 0..service'.next
      /\ PickerInv'
  <2>1. r \in Choices /\ r # NoReply
    BY <1>2, <1>3
  <2>2. r.is = "Ok" => r.ticket \in {NoTicket, x.ticket} /\ r \in [is : {"Ok"}, ticket : {NoTicket, x.ticket}]
    BY <1>2, <1>3
  <2>3. (r.is = "Ok" /\ r.ticket # NoTicket /\ open) => grant'[x.ticket].held
    <3> HAVE r.is = "Ok" /\ r.ticket # NoTicket /\ open
    <3>1. r # none /\ r # Refused("none")
      BY <1>2
    <3>2. grant' = [grant EXCEPT ![t] = NewGrant]
      BY <1>3, <3>1
    <3> QED BY <1>1, <3>2, GrantForms DEF IInv, Types, HostTypes
  <2> QED BY ONLY IInv, x \in service.dialogs, <1>3, <2>1, <2>2, <2>3, ClosedDialog
<1>5. CASE grant' = grant
  <2>1. Types'
    BY <1>4, <1>5 DEF IInv, Types, HostTypes
  <2>2. \A g \in Tickets : TicketInv(g)'
    BY <1>4, <1>5, TicketsKept
  <2> QED BY <1>4, <1>5, <2>1, <2>2, ElsewhereHolds DEF IInv
<1>6. CASE open /\ grant' = [grant EXCEPT ![t] = NewGrant]
  <2>1. /\ grant' \in [Tickets -> Grants \cup {NoGrant}]
        /\ grant'[t] = NewGrant
        /\ \A g \in Tickets \ {t} : grant'[g] = grant[g]
    BY <1>1, <1>6, GrantForms DEF IInv, Types, HostTypes
  <2>2. Types'
    BY <1>4, <2>1 DEF IInv, Types, HostTypes
  <2>3. \A g \in Tickets \ {t} : TicketInv(g)' /\ Local(g)'
    <3>1. \A g \in Tickets \ {t} : Keeps(g)
      BY <1>4, <2>1 DEF Keeps
    <3>2. \A g \in Tickets \ {t} : TicketInv(g)'
      BY <1>4, <2>1, TicketsKept
    <3> QED BY <3>1, <3>2, LocalKept DEF IInv
  <2>4. client[t] = NoEntry \/ client[t].stage = "Gone"
    BY <1>1 DEF Unused, IInv, TicketInv
  <2>5. \A m \in net : ~ForGrant(m, t)
    BY <1>1 DEF Unused
  <2>6. TicketInv(t)'
    <3>1. ~(t > service.next)
      BY TheDialog DEF Tickets
    <3> QED BY <1>1, <1>4, <1>6, <2>1, <2>4, <2>5, <3>1 DEF TicketInv, Fresh, ForGrant, NoEntry,
               IInv
  <2>7. Local(t)'
    <3>1. client'[t] = client[t] /\ client[t].stage \in {"None", "Gone"} /\ ~Saving(t)'
      BY SMTT(30), <1>4, <2>4 DEF NoEntry, Saving
    <3>2. AwaitsInv(t)' /\ ReplyInv(t)' /\ ConfirmedInv(t)'
      BY <1>1, <1>4, <2>4, <3>1 DEF IInv, Local, AwaitsInv, ReplyInv, ConfirmedInv, NoEntry,
         NoReply, Saving
    <3>3. SequenceInv(t)' /\ UploadInv(t)'
      <4>1. client[t].sequence \in Nat
        BY SMTT(30), <1>1 DEF IInv, Types, ClientTypes, Entries
      <4> QED BY <1>4, <2>1, <2>5, <3>1, <4>1, GrantForms DEF SequenceInv, UploadInv, Idle, ForGrant
    <3>4. OpeningInv(t)' /\ RestInv(t)' /\ UploadingInv(t)' /\ CommittingInv(t)' /\ ReleasingInv(t)'
      BY <3>1 DEF OpeningInv, RestInv, UploadingInv, CommittingInv, ReleasingInv
    <3> QED BY <3>2, <3>3, <3>4 DEF Local
  <2>8. \A d \in Drafts : DraftInv(d)'
    <3>1. \A d \in Drafts, g \in Tickets : Owns(g, d)' => Owns(g, d)
      BY <1>4, <2>1, GrantForms DEF Owns, Idle, ForGrant
    <3> QED BY <1>4, <3>1, DraftKept DEF IInv
  <2> QED BY <1>4, <2>2, <2>3, <2>6, <2>7, <2>8 DEF IInv
<1> QED BY <1>5, <1>6 DEF Choose, Dismiss, CannotOpen, IsCurrent

(* The session ends. *)
LEMMA CloseHolds ==
  ASSUME IInv, CloseService, net' \subseteq net
  PROVE  IInv'
<1>1. /\ open' = FALSE /\ grant' = [g \in Tickets |-> NoGrant]
      /\ service' = [service EXCEPT !.picker = NoTicket]
      /\ disposed' = disposed /\ chooser' = chooser
      /\ client' = client /\ saves' = saves
  BY DEF CloseService
<1>2. \A g \in Tickets : grant'[g] = NoGrant /\ ~grant'[g].held
  BY <1>1, GrantForms
<1>3. Types'
  <2>1. service' \in Pickers /\ service'.picker \in 0..service'.next
    BY <1>1 DEF IInv, Types, HostTypes, NoTicket, Pickers
  <2>2. grant' \in [Tickets -> Grants \cup {NoGrant}]
    BY <1>1
  <2>3. net' \subseteq Requests \cup Asks \cup {CloseRequest}
    BY DEF IInv, Types, HostTypes
  <2> QED BY <1>1, <2>1, <2>2, <2>3 DEF IInv, Types, HostTypes, ClientTypes, Pickers
<1>4. PickerInv'
  BY <1>1 DEF IInv, Types, HostTypes, PickerInv, Waiting
<1>5. ASSUME NEW g \in Tickets
      PROVE  TicketInv(g)' /\ Local(g)'
  <2>1. service'.next = service.next /\ service'.dialogs = service.dialogs
    BY <1>1 DEF IInv, Types, HostTypes
  <2>2. TicketInv(g)'
    BY <1>1, <1>2, <2>1 DEF IInv, TicketInv, Fresh, Unused, ForGrant
  <2>3. AwaitsInv(g)' /\ ReplyInv(g)' /\ ConfirmedInv(g)'
    BY <1>1 DEF IInv, Local, AwaitsInv, ReplyInv, ConfirmedInv, Saving, SaveRequest
  <2>4. SequenceInv(g)' /\ UploadInv(g)'
    BY <1>1, <1>2 DEF IInv, Local, SequenceInv, UploadInv, ForGrant
  <2>5. OpeningInv(g)'
    BY <1>1 DEF IInv, Local, OpeningInv
  <2>6. RestInv(g)' /\ UploadingInv(g)' /\ CommittingInv(g)' /\ ReleasingInv(g)'
    BY <1>1 DEF RestInv, UploadingInv, CommittingInv, ReleasingInv
  <2> QED BY <2>2, <2>3, <2>4, <2>5, <2>6 DEF Local
<1>6. ASSUME NEW d \in Drafts
      PROVE  DraftInv(d)'
  <2>1. \A f \in Tickets : Owns(f, d)' => Owns(f, d)
    BY <1>1, <1>2 DEF Owns, ForGrant
  <2> QED BY <1>1, <2>1, DraftKept DEF IInv
<1> QED BY <1>3, <1>4, <1>5, <1>6 DEF IInv

(* A step of the folder, or none. *)
LEMMA FolderHolds ==
  ASSUME IInv, UNCHANGED <<open, service, grant, net, disposed, chooser, client, saves>>
  PROVE  IInv'
<1>1. Elsewhere
  BY DEF Elsewhere
<1>2. Types'
  BY DEF IInv, Types, HostTypes, ClientTypes
<1>3. PickerInv'
  BY DEF IInv, PickerInv, Waiting
<1>4. \A g \in Tickets : TicketInv(g)'
  BY TicketsKept
<1> QED BY <1>1, <1>2, <1>3, <1>4, ElsewhereHolds DEF IInv

LEMMA HostHolds ==
  ASSUME IInv, FolderInv, HostStep
  PROVE  IInv'
<1>1. CASE \E m \in net :
             /\ OfGrant(m)
             /\ \/ Refuse(m) \/ HandleCheck(m) \/ HandleRevoke(m)
                \/ SnapshotFails(m) \/ SnapshotUncertain(m) \/ HandleSnapshot(m)
                \/ HandleRead(m) \/ HandleBegin(m) \/ HandleWrite(m)
                \/ HandleStatus(m) \/ HandleRelease(m)
  BY <1>1, RequestsHold
<1>2. CASE \E m \in net : StartCommit(m)
  BY <1>2, FolderHolds DEF StartCommit
<1>3. CASE \E m \in net :
             /\ OfChooser(m)
             /\ \/ HandleChooserCheck(m) \/ BeginChoose(m) \/ RefuseChoose(m)
                \/ HandleCancelPicker(m)
  BY <1>3, RequestsOfPickerHold, BeginChooseHolds
<1>4. CASE \E x \in service.dialogs : Choose(x) \/ Dismiss(x) \/ CannotOpen(x)
  BY <1>4, DialogsHold
<1>5. CASE HandleClose \/ RevokeSession
  BY <1>5, CloseHolds DEF HandleClose, RevokeSession
<1>6. CASE FolderStep
  BY <1>6, FolderHolds DEF FolderStep
<1>7. CASE Editing /\ (CommitDenied \/ CommitUncertain \/ Save)
  BY <1>7, CommitHolds
<1> QED BY <1>1, <1>2, <1>3, <1>4, <1>5, <1>6, <1>7 DEF HostStep, HandleNext
-----------------------------------------------------------------------------
(* The client's choose().                                                  *)

(* A step of choose() that is about no grant yet. *)
LEMMA ChooserStepHolds ==
  ASSUME IInv, Elsewhere, UNCHANGED host, ClientTypes', disposed' = disposed,
         net' \subseteq net \cup Asks,
         PickerInv', chooser'.at = chooser.at \/ chooser.at # "Opening"
  PROVE  IInv'
<1>1. /\ grant' = grant /\ service' = service /\ open' = open
      /\ client' = client /\ saves' = saves
      /\ \A m \in net' : m \in net \/ ~OfGrant(m)
  BY DEF host, Elsewhere
<1>2. Types'
  BY <1>1 DEF IInv, Types, HostTypes
<1>3. ASSUME NEW g \in Tickets
      PROVE  TicketInv(g)'
  BY <1>1 DEF IInv, TicketInv, Fresh, Unused, ForGrant
<1> QED BY <1>1, <1>2, <1>3, ElsewhereHolds DEF IInv

LEMMA ChooserHolds ==
  ASSUME IInv,
         CallChoose \/ ChooserTimeout \/ ChooserChecked \/ NothingChosen \/ CancelPicker
  PROVE  IInv'
<1>1. /\ Elsewhere /\ UNCHANGED host /\ disposed' = disposed /\ net' \subseteq net \cup Asks
      /\ client' = client /\ saves' = saves
  <2>1. chooser.attempt \in Nat /\ chooser.attempt + 1 \in Nat
    BY BoundsAssumption DEF IInv, Types, ClientTypes
  <2>2. \A op \in {"CheckSession", "ChooseWrite", "CancelPicker"} :
          {Ask(op, chooser.attempt), Ask(op, chooser.attempt + 1)} \subseteq Asks
    BY <2>1, OtherForms
  <2>3. /\ UNCHANGED host /\ disposed' = disposed /\ net' \subseteq net \cup Asks
        /\ client' = client /\ saves' = saves
    BY <2>2 DEF CallChoose, ChooserTimeout, ChooserChecked, NothingChosen, CancelPicker
  <2>4. Elsewhere
    BY <2>3, OtherForms DEF Elsewhere, host
  <2> QED BY <2>3, <2>4
<1>2. ClientTypes'
  <2>1. NoReply \in Choices /\ TimedOut \in Choices
    BY ChooserForms DEF TimedOut, Effects
  <2>2. chooser.attempt \in 0..MaxTickets
        /\ (chooser.attempt < MaxTickets) => chooser.attempt + 1 \in 0..MaxTickets
    BY BoundsAssumption DEF IInv, Types, ClientTypes
  <2>3. chooser.setbacks \in Nat /\ chooser.setbacks + 1 \in Nat
    BY DEF IInv, Types, ClientTypes
  <2> QED BY ZenonT(30), <1>1, <2>1, <2>2, <2>3 DEF IInv, Types, ClientTypes, CallChoose,
             ChooserTimeout,
             ChooserChecked, NothingChosen, CancelPicker, ChooserGoes
<1>3. /\ service' = service /\ open' = open /\ grant' = grant
      /\ service.next \in Nat /\ chooser.attempt \in Nat
  BY <1>1 DEF host, IInv, Types, HostTypes, ClientTypes
<1>4. (chooser.at \in {"CheckSession", "Opening"}
         \/ (chooser.at = "Ready" /\ ~disposed)
         \/ (chooser.at = "ChooseWrite" /\ chooser.reply # NoReply)) =>
        /\ service.dialogs = {}
        /\ \A m \in net : m.op # "ChooseWrite"
  BY DEF IInv, PickerInv, Waiting
<1>5. CASE CallChoose
  <2>1. /\ chooser'.at = "CheckSession" /\ chooser'.attempt = chooser.attempt + 1
        /\ net' = net \cup {Ask("CheckSession", chooser.attempt + 1)}
        /\ chooser.at = "Ready" /\ ~disposed
    BY <1>5 DEF CallChoose, IInv, Types, ClientTypes
  <2>2. \A m \in net' : m.op # "ChooseWrite"
    BY <1>3, <1>4, <2>1, OtherForms
  <2>3. PickerInv'
    BY <1>1, <1>3, <1>4, <2>1, <2>2 DEF IInv, PickerInv
  <2> QED BY <1>1, <1>2, <2>1, <2>3, ChooserStepHolds
<1>6. CASE ChooserTimeout
  <2>1. /\ chooser.at = "CheckSession" /\ chooser'.at = "CheckSession"
        /\ chooser'.attempt = chooser.attempt /\ net' = net
    BY <1>6 DEF ChooserTimeout, IInv, Types, ClientTypes
  <2>2. PickerInv'
    BY <1>1, <1>3, <1>4, <2>1 DEF IInv, PickerInv
  <2> QED BY <1>1, <1>2, <2>1, <2>2, ChooserStepHolds
<1>7. CASE ChooserChecked
  <2>1. /\ chooser.at = "CheckSession" /\ chooser'.reply = NoReply
        /\ chooser'.attempt = chooser.attempt
        /\ \/ chooser'.at = "ChooseWrite" /\ net' = net \cup {Ask("ChooseWrite", chooser.attempt)}
           \/ chooser'.at = "Ready" /\ net' = net
    BY <1>7 DEF ChooserChecked, Choosing, ChooserGoes, IInv, Types, ClientTypes
  <2>2. chooser'.reply.is # "Ok"
    BY <2>1, ChooserForms
  <2>3. Ask("ChooseWrite", chooser.attempt).attempt = chooser.attempt
    BY <1>3, OtherForms
  <2>4. service.next < chooser.attempt
    BY <2>1 DEF IInv, PickerInv
  <2>5. \A m \in net' : m.op = "ChooseWrite" =>
           m = Ask("ChooseWrite", chooser.attempt) /\ chooser'.at = "ChooseWrite"
    BY <1>4, <2>1
  <2>6. PickerInv'
    BY <1>1, <1>3, <1>4, <2>1, <2>2, <2>3, <2>4, <2>5 DEF IInv, PickerInv, Waiting
  <2> QED BY <1>1, <1>2, <2>1, <2>6, ChooserStepHolds
<1>8. CASE NothingChosen
  <2>1. /\ chooser.at = "ChooseWrite" /\ chooser.reply # NoReply /\ chooser'.at = "Ready"
        /\ chooser'.attempt = chooser.attempt /\ net' = net
    BY <1>8 DEF NothingChosen, Choosing, ChooserGoes, IInv, Types, ClientTypes
  <2>2. PickerInv'
    BY <1>1, <1>3, <1>4, <2>1 DEF IInv, PickerInv
  <2> QED BY <1>1, <1>2, <2>1, <2>2, ChooserStepHolds
<1>9. CASE CancelPicker
  <2>1. /\ chooser'.at = chooser.at /\ chooser'.reply = chooser.reply
        /\ chooser'.attempt = chooser.attempt
        /\ net' = net \cup {Ask("CancelPicker", chooser.attempt)}
    BY <1>9 DEF CancelPicker, IInv, Types, ClientTypes
  <2>2. \A m \in net' : m.op = "ChooseWrite" => m \in net
    BY <1>3, <2>1, OtherForms
  <2>3. PickerInv'
    BY <1>1, <1>3, <2>1, <2>2 DEF IInv, PickerInv, Waiting
  <2> QED BY <1>1, <1>2, <2>1, <2>3, ChooserStepHolds
<1> QED BY <1>5, <1>6, <1>7, <1>8, <1>9

-----------------------------------------------------------------------------
(* A step of the client on a grant it has.                                 *)

Active(g) == client[g].stage \notin {"None", "Gone"}

ClientActs(g) ==
  /\ UNCHANGED host /\ disposed' = disposed
  /\ ClientTypes'
  /\ \A f \in Tickets \ {g} : client'[f] = client[f]
  /\ \A m \in net' : m \in net \/ (m \in Requests /\ ForGrant(m, g))
  /\ \A m \in net' : (m \notin net /\ m.op = "Write") => m.draft = client[g].draft

LEMMA ActiveGrant ==
  ASSUME IInv, NEW g \in Tickets, Active(g)
  PROVE  ~Unused(g) /\ ~disposed
BY DEF IInv, TicketInv, Unused, Active

LEMMA MovesTickets ==
  ASSUME IInv, NEW g \in Tickets, ClientActs(g), Active(g), StepOf(g),
         \/ SameChooser /\ Follows(g)
         \/ /\ client[g].stage \in {"Opening", "Discarding"}
            /\ \/ SameChooser /\ client'[g].stage \in {"Opening", "Discarding"}
               \/ chooser'.at = "Ready" /\ client'[g].stage \in {"Ready", "Gone"}
                  /\ chooser'.attempt = chooser.attempt
  PROVE  PickerInv' /\ \A f \in Tickets : TicketInv(f)'
<1>1. ~Unused(g) /\ ~disposed
  BY ActiveGrant
<1>2. CASE SameChooser /\ Follows(g)
  BY <1>1, <1>2, OthersTickets DEF Active, ClientActs, host
<1>3. CASE /\ client[g].stage \in {"Opening", "Discarding"}
           /\ \/ SameChooser /\ client'[g].stage \in {"Opening", "Discarding"}
              \/ chooser'.at = "Ready" /\ client'[g].stage \in {"Ready", "Gone"}
                 /\ chooser'.attempt = chooser.attempt
  <2>1. chooser.at = "Opening" /\ g = service.next
    BY <1>3 DEF IInv, TicketInv
  <2>2. /\ chooser'.at \in {"Opening", "Ready"} /\ chooser'.attempt = chooser.attempt
        /\ service' = service /\ disposed' = disposed /\ grant' = grant /\ open' = open
    BY <1>3, <2>1 DEF SameChooser, ClientActs, host
  <2>3. service.dialogs = {} /\ \A m \in net' : m.op # "ChooseWrite"
    BY <1>1, <2>1, RequestForms DEF IInv, PickerInv, Waiting, StepOf
  <2>4. PickerInv'
    BY <1>1, <2>2, <2>3 DEF IInv, PickerInv
  <2>5. ASSUME NEW f \in Tickets, f # g
        PROVE  TicketInv(f)'
    <3>1. client[f].stage \notin {"Opening", "Discarding"}
      BY <2>1, <2>5 DEF IInv, TicketInv
    <3> QED BY <1>1, <2>2, <2>5, <3>1 DEF IInv, TicketInv, Fresh, Unused, ForGrant, StepOf
  <2>6. TicketInv(g)'
    <3>1. ~(g > service.next) /\ client'[g].stage # "None"
      BY <1>3, <2>1 DEF Tickets
    <3>2. client'[g].stage \in {"Opening", "Discarding"} => chooser'.at = "Opening"
      BY <1>3, <2>1 DEF SameChooser
    <3> QED BY <1>1, <2>1, <2>2, <2>3, <3>1, <3>2 DEF IInv, TicketInv
  <2> QED BY <2>4, <2>5, <2>6
<1> QED BY <1>2, <1>3

(* It leaves the drafts as they are. *)
LEMMA ActsHold ==
  ASSUME IInv, NEW g \in Tickets, ClientActs(g), Active(g), saves' = saves,
         client'[g].draft = client[g].draft, Local(g)',
         \/ SameChooser /\ Follows(g)
         \/ /\ client[g].stage \in {"Opening", "Discarding"}
            /\ \/ SameChooser /\ client'[g].stage \in {"Opening", "Discarding"}
               \/ chooser'.at = "Ready" /\ client'[g].stage \in {"Ready", "Gone"}
                  /\ chooser'.attempt = chooser.attempt
  PROVE  IInv'
<1>1. StepOf(g)
  BY DEF ClientActs, StepOf, host
<1>2. PickerInv' /\ \A f \in Tickets : TicketInv(f)'
  BY <1>1, MovesTickets
<1>3. \A f \in Tickets : Local(f)'
  BY <1>1, OthersLocal
<1>4. ASSUME NEW d \in Drafts
      PROVE  DraftInv(d)'
  <2>1. ASSUME NEW f \in Tickets, Owns(f, d)'
        PROVE  Owns(f, d)
    BY <2>1 DEF Owns, ClientActs, ForGrant, host
  <2>2. \A f \in Tickets : client'[f].draft = client[f].draft
    BY DEF ClientActs
  <2>3. open' = open
    BY DEF ClientActs, host
  <2> QED BY <2>1, <2>2, <2>3, DraftKept DEF IInv
<1>5. Types'
  <2>1. net' \subseteq Requests \cup Asks \cup {CloseRequest}
    BY DEF ClientActs, IInv, Types, HostTypes
  <2> QED BY <2>1 DEF ClientActs, host, IInv, Types, HostTypes
<1> QED BY <1>2, <1>3, <1>4, <1>5 DEF IInv

ChooserMoves == chooser' = chooser \/ \E at \in {"Ready", "Opening"} : ChooserGoes(at)

LEMMA ChooserMoved ==
  ASSUME IInv, ChooserMoves
  PROVE  /\ chooser' \in [at : {"Ready", "CheckSession", "ChooseWrite", "Opening"},
                          attempt : 0..MaxTickets, stale : BOOLEAN, reply : Choices,
                          setbacks : Nat]
         /\ chooser'.attempt = chooser.attempt
         /\ chooser' = chooser => SameChooser
         /\ \A at \in {"Ready", "Opening"} : ChooserGoes(at) => chooser'.at = at
BY ChooserForms DEF ChooserMoves, ChooserGoes, IInv, Types, ClientTypes, SameChooser

LEMMA SendsActs ==
  ASSUME IInv, NEW g \in Tickets, NEW entry \in Entries, NEW m \in Requests, Sends(g, entry, m),
         m.grant = g, m.op = "Write" => m.draft = client[g].draft,
         UNCHANGED <<host, disposed>>, saves' \in [Drafts -> Records], ChooserMoves
  PROVE  ClientActs(g) /\ ForGrant(m, g)
<1>1. /\ client' \in [Tickets -> Entries] /\ net' = net \cup {m}
      /\ \A f \in Tickets \ {g} : client'[f] = client[f]
  BY SendsGives DEF IInv, Types, Sent
<1>2. ForGrant(m, g)
  BY RequestForms DEF ForGrant
<1>3. ClientTypes'
  BY <1>1, ChooserMoved DEF IInv, Types, ClientTypes
<1> QED BY <1>1, <1>2, <1>3 DEF ClientActs

LEMMA RestsActs ==
  ASSUME IInv, NEW g \in Tickets, NEW entry \in Entries, Rests(g, entry),
         UNCHANGED <<host, disposed>>, saves' \in [Drafts -> Records], ChooserMoves
  PROVE  ClientActs(g)
<1>1. /\ client' \in [Tickets -> Entries] /\ net' = net
      /\ \A f \in Tickets \ {g} : client'[f] = client[f]
  BY RestsGives DEF IInv, Types, Rested
<1>2. ClientTypes'
  BY <1>1, ChooserMoved DEF IInv, Types, ClientTypes
<1> QED BY <1>1, <1>2 DEF ClientActs

(* What the grant is like when the client asks on it. *)
LEMMA OfTheEntry ==
  ASSUME IInv, NEW g \in Tickets
  PROVE  /\ client[g] \in Entries /\ client[g].sequence \in Nat /\ client[g].revision \in Nat
         /\ client[g].reply \in Replies /\ client[g].awaits \in Requests \cup {NoRequest}
         /\ client[g].blocked \in BOOLEAN /\ client[g].opened \in Nat
         /\ Local(g) /\ TicketInv(g)
         /\ (~open) => ~grant[g].held
         /\ saves \in [Drafts -> Records]
         /\ (client[g].awaits # NoRequest) => Active(g)
<1>1. client[g] \in Entries /\ saves \in [Drafts -> Records]
  BY DEF IInv, Types, ClientTypes
<1>2. client[g].awaits # NoRequest => Active(g)
  BY DEF IInv, TicketInv, Local, AwaitsInv, Active, NoEntry
<1> QED BY <1>1, <1>2 DEF Entries, IInv, TicketInv

(* A request that is of no consequence to the host's uploads. *)
LEMMA AskedSequence ==
  ASSUME IInv, NEW g \in Tickets, UNCHANGED host, NEW m \in Requests, net' = net \cup {m},
         client'[g].stage # "Gone" =>
            client[g].stage # "Gone" /\ client[g].sequence <= client'[g].sequence
            /\ m.sequence <= client'[g].sequence,
         client'[g].sequence \in Nat
  PROVE  SequenceInv(g)'
<1>1. \A o \in net : ForGrant(o, g) => o.sequence \in Nat
  BY Mine, RequestForms DEF IInv
<1>2. grant[g].held => grant[g].retired \in Nat
  BY GrantForms DEF IInv, Types, HostTypes, Grants
<1>3. client[g].sequence \in Nat /\ m.sequence \in Nat
  BY OfTheEntry, RequestForms
<1> QED BY <1>1, <1>2, <1>3, OfTheEntry DEF SequenceInv, Local, host

LEMMA AskedUpload ==
  ASSUME IInv, NEW g \in Tickets, UNCHANGED host, saves' = saves, NEW m \in Requests,
         net' = net \cup {m}, m.op \notin {"Write", "Commit"}
  PROVE  UploadInv(g)'
BY OfTheEntry DEF UploadInv, Local, host

-----------------------------------------------------------------------------
(* A selection that becomes an authority.                                  *)

LEMMA ChosenHolds ==
  ASSUME IInv, Chosen
  PROVE  IInv'
<1>1. chooser.at = "ChooseWrite" /\ chooser.reply.is = "Ok" /\ chooser.reply.ticket # NoTicket
  BY DEF Chosen, Choosing
<1>2a. /\ chooser.reply.ticket = service.next /\ service.next \in Tickets
       /\ client[service.next].stage = "None"
       /\ open => grant[service.next].held
  BY <1>1, BoundsAssumption DEF IInv, PickerInv, Types, HostTypes, ClientTypes, NoTicket, Tickets
<1>2b. PICK g \in Tickets : g = chooser.reply.ticket
  BY <1>2a
<1>2c. PICK stale \in BOOLEAN : stale = chooser.stale
  BY DEF IInv, Types, ClientTypes
<1>2. /\ g = service.next /\ g \in Tickets /\ client[g].stage = "None"
      /\ open => grant[g].held
  BY <1>2a, <1>2b
<1>3. client[g] = NoEntry /\ Fresh(g) /\ ~disposed
  BY <1>2 DEF IInv, TicketInv
<1>4. service.dialogs = {} /\ \A o \in net : o.op # "ChooseWrite"
  BY <1>1, <1>3, ChooserForms DEF IInv, PickerInv, Waiting
<1> DEFINE m == IF stale THEN Request("Revoke", g, 0) ELSE Request("Snapshot", g, 1)
           entry == IF stale
                    THEN [NoEntry EXCEPT !.stage = "Discarding", !.blocked = TRUE]
                    ELSE [NoEntry EXCEPT !.stage = "Opening", !.sequence = 1]
<1>5. /\ Sends(g, entry, m)
      /\ ChooserGoes("Opening")
      /\ UNCHANGED <<host, disposed, saves>>
  BY <1>2b, <1>2c, <1>3 DEF Chosen, Discard
<1>6. /\ m \in Requests /\ m.grant = g /\ m.op \in {"Revoke", "Snapshot"}
      /\ m.sequence = entry.sequence
      /\ entry \in Entries
      /\ entry.opened = 0 /\ entry.draft = NoContent
      /\ \/ stale /\ m = Request("Revoke", g, 0) /\ entry.stage = "Discarding"
         \/ /\ ~stale /\ m = Request("Snapshot", g, 1) /\ m.op = "Snapshot" /\ entry.stage = "Opening"
            /\ entry.sequence = 1 /\ ~entry.blocked
  <2>1. NoEntry \in Entries
    BY <1>2, <1>3, OfTheEntry
  <2>2. /\ entry \in Entries /\ entry.opened = 0 /\ entry.draft = NoContent
        /\ \/ stale /\ entry.stage = "Discarding" /\ entry.sequence = 0
           \/ ~stale /\ entry.stage = "Opening" /\ entry.sequence = 1 /\ ~entry.blocked
    BY <2>1 DEF Entries, Stages, NoEntry
  <2>3. /\ m \in Plain /\ m.grant = g /\ m.op = (IF stale THEN "Revoke" ELSE "Snapshot")
        /\ m.sequence = (IF stale THEN 0 ELSE 1)
    BY <1>2, Made
  <2> HIDE DEF entry
  <2> QED BY <2>2, <2>3 DEF Requests
<1> HIDE DEF m, entry
<1>7. /\ client'[g].stage = entry.stage /\ client'[g].awaits = m /\ client'[g].reply = NoReply
      /\ client'[g].reply.is = "None"
      /\ client'[g].sequence = entry.sequence /\ client'[g].blocked = entry.blocked
      /\ client'[g].opened = 0 /\ client'[g].draft = NoContent
      /\ \A f \in Tickets \ {g} : client'[f] = client[f]
      /\ net' = net \cup {m}
  <2>1. ClientTypes
    BY DEF IInv, Types
  <2>2. Sent(g, entry, m)
    BY <1>5, <1>6, <2>1, SendsGives
  <2> QED BY <1>6, <2>2 DEF Sent
<1>8. ClientActs(g) /\ ForGrant(m, g) /\ chooser'.at = "Opening" /\ chooser'.attempt = chooser.attempt
  <2>1. ChooserMoves
    BY <1>5 DEF ChooserMoves
  <2>2. saves' \in [Drafts -> Records]
    BY <1>5 DEF IInv, Types, ClientTypes
  <2> QED BY <1>2, <1>5, <1>6, <2>1, <2>2, SendsActs, ChooserMoved
<1>9. StepOf(g) /\ grant' = grant /\ open' = open /\ service' = service /\ disposed' = disposed
  BY <1>5, <1>8 DEF StepOf, ClientActs, host
<1>10. \A o \in net' : ForGrant(o, g) => o = m
  BY <1>3, <1>7 DEF Fresh, ForGrant
<1>11. Local(g)'
  <2>1. ~Saving(g)'
    BY <1>6, <1>7 DEF Saving
  <2>2. AwaitsInv(g)'
    BY <1>6, <1>7, <2>1 DEF AwaitsInv
  <2>3. ReplyInv(g)' /\ ConfirmedInv(g)' /\ RestInv(g)' /\ UploadingInv(g)' /\ CommittingInv(g)'
        /\ ReleasingInv(g)'
    BY <1>6, <1>7, <2>1 DEF ReplyInv, ConfirmedInv, RestInv, UploadingInv, CommittingInv,
       ReleasingInv
  <2>4. SequenceInv(g)' /\ UploadInv(g)'
    <3>1. grant'[g].held => grant'[g].retired = 0 /\ grant'[g].transfer.kind = "Idle"
      BY <1>3, <1>9, GrantForms DEF Fresh, Idle
    <3>2. client'[g].sequence \in Nat /\ m.sequence = client'[g].sequence /\ 0 <= client'[g].sequence
      BY <1>6, <1>7 DEF Entries
    <3>3. m.op \notin {"Write", "Commit"}
      BY <1>6
    <3> QED BY <1>10, <3>1, <3>2, <3>3 DEF SequenceInv, UploadInv, IsActive
  <2>5. OpeningInv(g)'
    <3>1. CASE stale
      BY <1>6, <1>7, <3>1 DEF OpeningInv
    <3>2. CASE ~stale
      <4>1. \A k : Only(g, Pending(g), k)'
        BY <1>7, <1>10 DEF Only, Pending
      <4> QED BY <1>2, <1>6, <1>7, <1>9, <3>2, <4>1 DEF OpeningInv
    <3> QED BY <3>1, <3>2
  <2> QED BY <2>2, <2>3, <2>4, <2>5 DEF Local
<1>12. PickerInv'
  <2>1. \A o \in net' : o.op # "ChooseWrite"
    BY <1>4, <1>6, <1>7
  <2> QED BY <1>3, <1>4, <1>8, <1>9, <2>1 DEF IInv, PickerInv
<1>13. ASSUME NEW f \in Tickets
       PROVE  TicketInv(f)'
  <2>1. CASE f = g
    <3>1. ~(g > service.next)
      BY <1>2 DEF Tickets
    <3> QED BY <1>2, <1>3, <1>4, <1>6, <1>7, <1>8, <1>9, <2>1, <3>1 DEF IInv, TicketInv
  <2>2. CASE f # g
    <3>1. client[f].stage \notin {"Opening", "Discarding"}
      BY <1>1 DEF IInv, TicketInv
    <3> QED BY <1>3, <1>4, <1>7, <1>8, <1>9, <2>2, <3>1
            DEF IInv, TicketInv, Fresh, Unused, ForGrant, StepOf
  <2> QED BY <2>1, <2>2
<1>14. \A f \in Tickets : Local(f)'
  BY <1>2, <1>9, <1>11, OthersLocal
<1>15. ASSUME NEW d \in Drafts
       PROVE  DraftInv(d)'
  <2>1. ASSUME NEW f \in Tickets, Owns(f, d)'
        PROVE  Owns(f, d)
    BY <1>3, <1>6, <1>7, <1>9, <2>1, ContentsAssumption DEF Owns, ForGrant, NoEntry
  <2>2. \A f \in Tickets : client'[f].draft = client[f].draft
    BY <1>3, <1>7 DEF NoEntry
  <2> QED BY <1>5, <1>9, <2>1, <2>2, DraftKept DEF IInv
<1>16. Types'
  BY <1>5, <1>6, <1>7, <1>8 DEF ClientActs, host, IInv, Types, HostTypes
<1> QED BY <1>12, <1>13, <1>14, <1>15, <1>16 DEF IInv

(* A download fails or goes on. *)
LEMMA OpeningForms ==
  ASSUME IInv, NEW g \in Tickets, client[g].stage = "Opening"
  PROVE  /\ Active(g) /\ ~disposed /\ chooser.at = "Opening" /\ client[g].sequence = 1
         /\ client[g].draft = NoContent
         /\ client[g].awaits \in Requests /\ client[g].awaits # NoRequest
         /\ client[g].awaits.op \in {"Snapshot", "Release", "Read"}
         /\ client[g].awaits.op = "Read" => client[g].awaits \in Reads
         /\ client[g] \in Entries /\ Local(g)
<1>1. client[g] \in Entries /\ Local(g) /\ TicketInv(g)
  BY OfTheEntry
<1>2. \A op \in {"Snapshot", "Release"} : Request(op, g, 1) \in Requests /\ Request(op, g, 1).op = op
  BY Made DEF Requests
<1>3. /\ client[g].awaits \in Requests
      /\ client[g].awaits.op \in {"Snapshot", "Release", "Read"}
      /\ client[g].awaits.op = "Read" => client[g].awaits \in Reads
  BY <1>1, <1>2 DEF Local, AwaitsInv, Reads, Requests
<1>4. client[g].awaits # NoRequest
  BY <1>3, RequestForms
<1>5. client[g].draft = NoContent /\ client[g].sequence = 1
  BY <1>1 DEF Local, AwaitsInv, Saving
<1> QED BY <1>1, <1>3, <1>4, <1>5 DEF TicketInv, Active

(* The stage of an entry follows from what it awaits. *)
LEMMA StageOf ==
  ASSUME IInv, NEW g \in Tickets
  PROVE  /\ client[g].awaits.op \in {"Snapshot", "Read"} => client[g].stage = "Opening"
         /\ client[g].awaits.op \in {"CheckSession", "BeginEdit", "Write", "Commit", "Status"} =>
              Saving(g)
<1> DEFINE op == client[g].awaits.op
<1>1. client[g] \in Entries /\ AwaitsInv(g) /\ TicketInv(g)
  BY OfTheEntry DEF Local
<1>2. client[g].stage \in Stages /\ client[g].sequence \in Nat
  BY <1>1 DEF Entries
<1>3. NoRequest.op = "None" /\ Request("Revoke", g, 0).op = "Revoke"
  BY DEF NoRequest, Request
<1>4. CASE client[g].stage \in {"None", "Gone", "Discarding"}
  <2>1. op \in {"None", "Revoke"}
    BY <1>1, <1>3, <1>4 DEF AwaitsInv, TicketInv, NoEntry
  <2> QED BY <2>1
<1>5. CASE client[g].stage = "Opening"
  <2>1. op \in {"Snapshot", "Read", "Release"}
    BY <1>5, OpeningForms
  <2> QED BY <1>5, <2>1
<1>6. CASE client[g].stage \in {"Ready", "Revoking"}
  <2>1. op \in SaveOps \/ op \in {"None", "Revoke"}
    BY <1>1, <1>3, <1>6 DEF AwaitsInv, SaveRequest, SaveOps, Request, BeginRequest, Writes
  <2> QED BY <1>6, <2>1 DEF Saving, SaveOps
<1> QED BY <1>2, <1>4, <1>5, <1>6 DEF Stages

(* The next request of the download. *)
LEMMA OpeningGoesOn ==
  ASSUME IInv, NEW g \in Tickets, client[g].stage = "Opening", NEW entry \in Entries,
         entry.stage = "Opening", entry.sequence = 1, entry.draft = client[g].draft,
         ~entry.blocked, NEW m \in Requests, Sends(g, entry, m), m.grant = g,
         UNCHANGED <<host, disposed, chooser, saves>>,
         \/ m = Request("Release", g, 1)
         \/ m \in Reads /\ m = ReadRequest(g, 1, m.offset),
         client[g].reply # NoReply,
         m.op = "Read" \/ entry.opened > 0 =>
            (open => /\ Only(g, {}, 0) /\ Downloading(g) /\ grant[g].revision = entry.opened
                     /\ m.op = "Release" => entry.revision = entry.opened
                                            /\ entry.seen = grant[g].baseline)
  PROVE  IInv'
<1>1. /\ client'[g].stage = "Opening" /\ client'[g].awaits = m /\ client'[g].reply = NoReply
      /\ client'[g].reply.is = "None"
      /\ client'[g].sequence = 1 /\ ~client'[g].blocked
      /\ client'[g].opened = entry.opened /\ client'[g].draft = client[g].draft
      /\ client'[g].revision = entry.revision /\ client'[g].seen = entry.seen
      /\ net' = net \cup {m}
  <2>1. ClientTypes
    BY DEF IInv, Types
  <2>2. Sends(g, entry, m)
    OBVIOUS
  <2>3. Sent(g, entry, m)
    BY <2>1, <2>2, SendsGives
  <2> QED BY <2>3 DEF Sent
<1>2. m.op \in {"Release", "Read"} /\ m.sequence = 1
  BY Made DEF Reads
<1>3. ClientActs(g) /\ ForGrant(m, g)
  BY <1>2, SendsActs DEF ChooserMoves, IInv, Types, ClientTypes
<1>4. /\ Active(g) /\ client[g].draft = NoContent /\ client[g].sequence = 1
      /\ grant' = grant /\ open' = open
  BY OpeningForms DEF host
<1>5. Local(g)'
  <2>1. ~Saving(g)'
    BY <1>1 DEF Saving
  <2>2. AwaitsInv(g)'
    BY <1>1, <1>4, <2>1 DEF AwaitsInv
  <2>3. /\ ReplyInv(g)' /\ ConfirmedInv(g)' /\ RestInv(g)' /\ UploadingInv(g)' /\ CommittingInv(g)'
        /\ ReleasingInv(g)'
    BY <1>1, <2>1 DEF ReplyInv, ConfirmedInv, RestInv, UploadingInv, CommittingInv, ReleasingInv
  <2>4. SequenceInv(g)'
    BY <1>1, <1>2, <1>4, AskedSequence
  <2>5. UploadInv(g)'
    BY <1>1, <1>2, AskedUpload
  <2>6. OpeningInv(g)'
    <3>1. Only(g, {}, 0) => Only(g, Pending(g), 0)'
      BY <1>1 DEF Only, Pending
    <3> QED BY <1>1, <1>2, <1>4, <3>1 DEF OpeningInv, Downloading, Agreed
  <2> QED BY <2>2, <2>3, <2>4, <2>5, <2>6 DEF Local
<1>6. SameChooser /\ Follows(g)
  BY <1>1 DEF SameChooser, Follows
<1> QED BY <1>1, <1>3, <1>4, <1>5, <1>6, ActsHold

LEMMA OnlyAnswered ==
  ASSUME NEW g, NEW n, client[g].reply # NoReply, Only(g, Pending(g), n)
  PROVE  Only(g, {}, n)
BY DEF Only, Pending

LEMMA SnapshotAnsweredHolds ==
  ASSUME IInv, NEW g \in Tickets, SnapshotAnswered(g)
  PROVE  IInv'
<1>1. client[g].awaits.op = "Snapshot" /\ client[g].reply # NoReply
  BY DEF SnapshotAnswered, Awaits
<1>2. client[g].stage = "Opening"
  BY <1>1, StageOf
<1>3. /\ client[g].sequence = 1 /\ client[g] \in Entries /\ Local(g) /\ client[g].opened = 0
      /\ ~client[g].blocked
  BY <1>1, <1>2, OpeningForms DEF Local, OpeningInv
<1>4. CASE Succeeded(g)
  <2> DEFINE entry == [client[g] EXCEPT !.opened = client[g].reply.revision]
             m == ReadRequest(g, 1, 0)
  <2>1. Sends(g, entry, m) /\ UNCHANGED <<host, disposed, chooser, saves>>
    BY <1>3, <1>4 DEF SnapshotAnswered
  <2>2. client[g].reply.revision \in Nat
    BY <1>1, <1>3, <1>4 DEF Local, ReplyInv, Succeeded
  <2>3. /\ entry \in Entries /\ entry.stage = "Opening" /\ entry.sequence = 1
        /\ entry.draft = client[g].draft /\ ~entry.blocked /\ entry.opened = client[g].reply.revision
    BY <1>2, <1>3, <2>2 DEF Entries
  <2>4. m \in Reads /\ m.offset = 0 /\ m.grant = g /\ m \in Requests /\ m.op = "Read"
    BY Made DEF Requests
  <2>5. open => /\ Only(g, {}, 0) /\ Downloading(g) /\ grant[g].revision = client[g].reply.revision
    BY <1>1, <1>2, <1>3, <1>4, OnlyAnswered DEF Local, OpeningInv, Unrefused, Succeeded
  <2> HIDE DEF entry
  <2>6. m = ReadRequest(g, 1, m.offset)
    BY <2>4
  <2> HIDE DEF m
  <2> QED BY <1>1, <1>2, <2>1, <2>3, <2>4, <2>5, <2>6, OpeningGoesOn
<1>5. CASE ~Succeeded(g)
  <2> DEFINE m == Request("Release", g, 1)
  <2>1. Sends(g, client[g], m) /\ UNCHANGED <<host, disposed, chooser, saves>>
    BY <1>3, <1>5 DEF SnapshotAnswered, ReleaseDownload
  <2>2. m \in Requests /\ m.op = "Release" /\ m.grant = g
    BY Made DEF Requests
  <2> HIDE DEF m
  <2> QED BY <1>1, <1>2, <1>3, <2>1, <2>2, OpeningGoesOn DEF m
<1> QED BY <1>4, <1>5

LEMMA ReadAnsweredHolds ==
  ASSUME IInv, NEW g \in Tickets, ReadAnswered(g)
  PROVE  IInv'
<1> DEFINE page == client[g]
           offset == page.awaits.offset
<1>1. page.awaits.op = "Read" /\ page.reply # NoReply
  BY DEF ReadAnswered, Awaits
<1>2. page.stage = "Opening"
  BY <1>1, StageOf
<1>3. /\ page.sequence = 1 /\ page \in Entries /\ Local(g) /\ ~page.blocked
      /\ offset \in Nat
  BY <1>1, <1>2, OpeningForms DEF Local, OpeningInv, Reads
<1>4. UNCHANGED <<host, disposed, chooser, saves>>
  BY DEF ReadAnswered
<1>5. (Succeeded(g) /\ open) =>
        /\ Only(g, {}, 0) /\ Downloading(g) /\ grant[g].revision = page.opened
        /\ page.reply.content = grant[g].baseline
  BY <1>1, <1>2, <1>3, OnlyAnswered DEF Local, OpeningInv, Unrefused, Succeeded
<1>6. CASE Succeeded(g) /\ Sends(g, page, ReadRequest(g, 1, offset + 1))
  <2>1. PICK m \in Reads : m = ReadRequest(g, 1, offset + 1) /\ m.grant = g /\ m.op = "Read"
                           /\ m.offset = offset + 1
    BY <1>3, Made
  <2>2. m \in Requests /\ m = ReadRequest(g, 1, m.offset) /\ Sends(g, page, m)
    BY <1>6, <2>1 DEF Requests
  <2> HIDE DEF offset
  <2> QED BY <1>1, <1>2, <1>3, <1>4, <1>5, <1>6, <2>1, <2>2, OpeningGoesOn
<1> DEFINE release == Request("Release", g, 1)
<1>7. release \in Requests /\ release.op = "Release" /\ release.grant = g
  BY Made DEF Requests
<1>8. CASE /\ Succeeded(g)
           /\ Sends(g, [page EXCEPT !.revision = page.opened, !.seen = page.reply.content], release)
  <2>1. page.reply.content \in Inventories
    BY <1>1, <1>3, <1>8 DEF Local, ReplyInv, Succeeded
  <2>2. PICK entry \in Entries :
          /\ entry = [page EXCEPT !.revision = page.opened, !.seen = page.reply.content]
          /\ entry.stage = "Opening" /\ entry.sequence = 1 /\ ~entry.blocked
          /\ entry.opened = page.opened /\ entry.draft = page.draft
          /\ entry.revision = page.opened /\ entry.seen = page.reply.content
    <3>1. [page EXCEPT !.revision = page.opened, !.seen = page.reply.content] \in Entries
      BY <1>3, <2>1 DEF Entries, Inventory
    <3> QED BY <1>2, <1>3, <3>1 DEF Entries
  <2>3. Sends(g, entry, release)
    BY <1>8, <2>2
  <2> HIDE DEF offset
  <2>4. open => /\ Only(g, {}, 0) /\ Downloading(g) /\ grant[g].revision = entry.opened
                /\ entry.revision = entry.opened /\ entry.seen = grant[g].baseline
    BY <1>5, <1>8, <2>2
  <2> QED BY <1>1, <1>2, <1>4, <1>7, <2>2, <2>3, <2>4, OpeningGoesOn
<1>9. CASE Sends(g, [page EXCEPT !.opened = 0], release)
  <2>1. PICK entry \in Entries :
          /\ entry = [page EXCEPT !.opened = 0]
          /\ entry.stage = "Opening" /\ entry.sequence = 1 /\ ~entry.blocked
          /\ entry.opened = 0 /\ entry.draft = page.draft
    <3>1. [page EXCEPT !.opened = 0] \in Entries
      BY <1>3 DEF Entries
    <3> QED BY <1>2, <1>3, <3>1 DEF Entries
  <2>2. Sends(g, entry, release)
    BY <1>9, <2>1
  <2> HIDE DEF offset
  <2>3. ~(entry.opened > 0) /\ release.op # "Read"
    BY <1>7, <2>1
  <2> QED BY <1>1, <1>2, <1>4, <1>7, <2>1, <2>2, <2>3, OpeningGoesOn
<1>10. CASE Succeeded(g) /\ offset + 1 < Chunks /\ Sends(g, page, ReadRequest(g, page.sequence, offset + 1))
  BY <1>3, <1>6, <1>10
<1>11. CASE /\ Succeeded(g)
            /\ ReleaseDownload(g, [page EXCEPT !.revision = page.opened, !.seen = page.reply.content])
  <2>1. [page EXCEPT !.revision = page.opened, !.seen = page.reply.content].sequence = 1
    BY <1>3 DEF Entries
  <2> QED BY <1>8, <1>11, <2>1 DEF ReleaseDownload
<1>12. CASE ReleaseDownload(g, [page EXCEPT !.opened = 0])
  <2>1. [page EXCEPT !.opened = 0].sequence = 1
    BY <1>3 DEF Entries
  <2> QED BY <1>9, <1>12, <2>1 DEF ReleaseDownload
<1> QED BY <1>10, <1>11, <1>12 DEF ReadAnswered

(* The selection is given up. *)
LEMMA DiscardHolds ==
  ASSUME IInv, NEW g \in Tickets, client[g].stage = "Opening", Discard(g, client[g]),
         UNCHANGED <<host, disposed, chooser, saves>>
  PROVE  IInv'
<1>1. PICK m \in Requests : m = Request("Revoke", g, 0) /\ m.op = "Revoke" /\ m.grant = g /\ m.sequence = 0
  BY Made DEF Requests
<1>2. PICK entry \in Entries :
        /\ entry = [client[g] EXCEPT !.stage = "Discarding", !.blocked = TRUE]
        /\ entry.stage = "Discarding" /\ entry.sequence = client[g].sequence
        /\ entry.draft = client[g].draft
  <2>1. client[g] \in Entries
    BY OpeningForms
  <2>2. [client[g] EXCEPT !.stage = "Discarding", !.blocked = TRUE] \in Entries
    BY <2>1 DEF Entries, Stages
  <2> QED BY <2>1, <2>2 DEF Entries
<1>3. Sends(g, entry, m) /\ ClientTypes
  BY <1>1, <1>2 DEF Discard, IInv, Types
<1>4. /\ client'[g].stage = "Discarding" /\ client'[g].awaits = m
      /\ client'[g].reply = NoReply /\ client'[g].reply.is = "None"
      /\ client'[g].sequence = client[g].sequence /\ client'[g].draft = client[g].draft
      /\ net' = net \cup {m}
  <2>1. Sent(g, entry, m)
    BY <1>3, SendsGives
  <2> QED BY <1>2, <2>1 DEF Sent
<1>5. ClientActs(g)
  BY <1>1, <1>3, SendsActs DEF ChooserMoves, IInv, Types, ClientTypes
<1>6. Active(g) /\ client[g].draft = NoContent /\ client[g].sequence = 1 /\ grant' = grant /\ open' = open
  BY OpeningForms DEF host
<1>7. Local(g)'
  <2>1. ~Saving(g)'
    BY <1>4 DEF Saving
  <2>2. AwaitsInv(g)'
    BY <1>1, <1>4, <1>6, <2>1 DEF AwaitsInv
  <2>3. /\ ReplyInv(g)' /\ ConfirmedInv(g)' /\ RestInv(g)' /\ UploadingInv(g)' /\ CommittingInv(g)'
        /\ ReleasingInv(g)' /\ OpeningInv(g)'
    BY <1>4, <2>1 DEF ReplyInv, ConfirmedInv, RestInv, UploadingInv, CommittingInv, ReleasingInv,
       OpeningInv
  <2>4. SequenceInv(g)'
    BY <1>1, <1>4, <1>6, AskedSequence
  <2>5. UploadInv(g)'
    BY <1>1, <1>4, AskedUpload
  <2> QED BY <2>2, <2>3, <2>4, <2>5 DEF Local
<1>8. SameChooser
  BY DEF SameChooser
<1> QED BY <1>4, <1>5, <1>6, <1>7, <1>8, ActsHold

(* A call ends that was not a save. *)
LEMMA RestsHold ==
  ASSUME IInv, NEW g \in Tickets, Active(g), ~Saving(g), NEW entry \in Entries, Rests(g, entry),
         UNCHANGED <<host, disposed, saves>>, ChooserMoves,
         entry.stage \in {"Ready", "Gone"},
         entry.stage = "Ready" =>
            /\ entry.sequence = client[g].sequence
            /\ entry.blocked \/ (open => RestInv(g)'),
         \/ SameChooser /\ Follows(g)
         \/ client[g].stage \in {"Opening", "Discarding"} /\ chooser'.at = "Ready"
  PROVE  IInv'
<1>1. ClientTypes /\ Rests(g, entry)
  BY DEF IInv, Types
<1>2. /\ client'[g].stage = entry.stage /\ client'[g].awaits = NoRequest
      /\ client'[g].reply = NoReply /\ client'[g].reply.is = "None"
      /\ client'[g].sequence = entry.sequence /\ client'[g].draft = NoContent
      /\ client'[g].blocked = entry.blocked
      /\ net' = net
  <2>1. Rested(g, entry)
    BY <1>1, RestsGives
  <2> QED BY <2>1 DEF Rested
<1>3. ClientActs(g) /\ chooser'.attempt = chooser.attempt
  BY <1>1, RestsActs, ChooserMoved DEF IInv, Types, ClientTypes
<1>4. client[g].draft = NoContent /\ grant' = grant /\ open' = open /\ Local(g) /\ saves' = saves
  BY OfTheEntry DEF Local, AwaitsInv, host
<1>5. Local(g)'
  <2>1. ~Saving(g)'
    BY <1>2 DEF Saving, NoRequest, SaveOps
  <2>2. AwaitsInv(g)'
    BY <1>2, <2>1 DEF AwaitsInv
  <2>3. /\ ReplyInv(g)' /\ ConfirmedInv(g)' /\ UploadingInv(g)' /\ CommittingInv(g)'
        /\ ReleasingInv(g)' /\ OpeningInv(g)'
    BY <1>2, <2>1 DEF ReplyInv, ConfirmedInv, UploadingInv, CommittingInv, ReleasingInv, OpeningInv
  <2>4. SequenceInv(g)' /\ UploadInv(g)'
    BY <1>2, <1>4 DEF Local, SequenceInv, UploadInv, Active
  <2>5. RestInv(g)'
    BY <1>2, <1>4 DEF RestInv
  <2> QED BY <2>2, <2>3, <2>4, <2>5 DEF Local
<1> QED BY <1>2, <1>3, <1>4, <1>5, ActsHold

LEMMA OpenedHolds ==
  ASSUME IInv, NEW g \in Tickets, Opened(g)
  PROVE  IInv'
<1>1. /\ client[g].stage = "Opening" /\ client[g].awaits.op = "Release"
      /\ client[g].reply # NoReply /\ UNCHANGED <<host, disposed, saves>>
  BY DEF Opened, Awaits
<1>2. CASE Discard(g, client[g]) /\ UNCHANGED chooser
  BY <1>1, <1>2, DiscardHolds
<1>3. CASE /\ Succeeded(g) /\ client[g].opened > 0
           /\ Rests(g, [client[g] EXCEPT !.stage = "Ready"])
           /\ ChooserGoes("Ready")
  <2>1. client[g] \in Entries /\ Local(g) /\ Active(g) /\ client[g].sequence = 1
    BY <1>1, OpeningForms
  <2>2. PICK entry \in Entries :
          /\ entry = [client[g] EXCEPT !.stage = "Ready"]
          /\ entry.stage = "Ready" /\ entry.sequence = client[g].sequence
          /\ entry.revision = client[g].revision /\ entry.seen = client[g].seen
    <3>1. [client[g] EXCEPT !.stage = "Ready"] \in Entries
      BY <2>1 DEF Entries, Stages
    <3> QED BY <2>1, <3>1 DEF Entries
  <2>3. Rests(g, entry) /\ ClientTypes
    BY <1>3, <2>2 DEF IInv, Types
  <2>4. /\ client'[g].stage = "Ready" /\ client'[g].awaits = NoRequest
        /\ client'[g].sequence = 1
        /\ client'[g].revision = client[g].revision /\ client'[g].seen = client[g].seen
        /\ net' = net
    <3>1. Rested(g, entry)
      BY <2>3, RestsGives
    <3> QED BY <2>1, <2>2, <3>1 DEF Rested
  <2>5. open => /\ Only(g, {}, 0) /\ Settled(g, 1)
    BY <1>1, <1>3, <2>1, OnlyAnswered DEF Local, OpeningInv, Unrefused, Succeeded
  <2>6. RestInv(g)'
    <3>1. grant' = grant /\ open' = open
      BY <1>1 DEF host
    <3>2. Only(g, {}, 0) => Only(g, {}, 1)'
      <4>1. \A m \in net : ForGrant(m, g) => m.sequence \in Nat
        BY Mine, RequestForms DEF IInv
      <4> QED BY <2>4, <4>1 DEF Only
    <3>3. client'[g].sequence = 1
      BY <2>4
    <3> QED BY <2>4, <2>5, <3>1, <3>2, <3>3 DEF RestInv, Settled, Agreed
  <2>7. ChooserMoves /\ chooser'.at = "Ready" /\ ~Saving(g)
    BY <1>1, <1>3, ChooserMoved DEF ChooserMoves, Saving
  <2> QED BY <1>1, <2>1, <2>2, <2>3, <2>6, <2>7, RestsHold
<1> QED BY <1>1, <1>2, <1>3 DEF Opened

LEMMA DiscardedHolds ==
  ASSUME IInv, NEW g \in Tickets, Discarded(g)
  PROVE  IInv'
<1>1. /\ client[g].stage = "Discarding" /\ Rests(g, Gone) /\ ChooserGoes("Ready")
      /\ UNCHANGED <<host, disposed, saves>>
  BY DEF Discarded
<1>2. Gone \in Entries /\ Gone.stage = "Gone"
  BY DEF Gone, NoEntry, Entries, Stages, NoReply, Replies, Effects, Inventory
<1>3. ChooserMoves /\ chooser'.at = "Ready" /\ ~Saving(g) /\ Active(g)
  BY <1>1, ChooserMoved DEF ChooserMoves, Saving, Active
<1> QED BY <1>1, <1>2, <1>3, RestsHold

-----------------------------------------------------------------------------
(* A call that times out, and revoke().                                    *)

LEMMA TimeoutHolds ==
  ASSUME IInv, NEW g \in Tickets, Timeout(g)
  PROVE  IInv'
<1>1. /\ client[g].awaits # NoRequest
      /\ client' = [client EXCEPT ![g].reply = TimedOut]
      /\ UNCHANGED <<host, net, disposed, saves>>
      /\ chooser' = [chooser EXCEPT !.setbacks = @ + 1]
  BY DEF Timeout
<1>2. TimedOut \in Replies /\ TimedOut.is = "Error" /\ TimedOut.effect = "unknown" /\ TimedOut # NoReply
  BY DEF TimedOut, Refused, Replies, Effects, NoReply
<1>3. client[g] \in Entries /\ Active(g) /\ Local(g)
  BY <1>1, OfTheEntry
<1>4. /\ client' \in [Tickets -> Entries] /\ client'[g].reply = TimedOut
      /\ client'[g].stage = client[g].stage /\ client'[g].awaits = client[g].awaits
      /\ client'[g].sequence = client[g].sequence /\ client'[g].revision = client[g].revision
      /\ client'[g].blocked = client[g].blocked /\ client'[g].opened = client[g].opened
      /\ client'[g].error = client[g].error /\ client'[g].draft = client[g].draft
      /\ client'[g].seen = client[g].seen
      /\ \A f \in Tickets \ {g} : client'[f] = client[f]
  BY <1>1, <1>2, <1>3 DEF IInv, Types, ClientTypes, Entries
<1>5. /\ grant' = grant /\ open' = open /\ saves' = saves /\ net' = net
      /\ SameChooser /\ Follows(g)
  BY <1>1, <1>4 DEF host, SameChooser, Follows, IInv, Types, ClientTypes
<1>6. ClientActs(g)
  <2>1. ClientTypes'
    BY <1>1, <1>4 DEF IInv, Types, ClientTypes
  <2> QED BY <1>1, <1>4, <2>1 DEF ClientActs
<1>7. Local(g)'
  <2>1. AwaitsInv(g)' /\ ReplyInv(g)' /\ SequenceInv(g)' /\ UploadInv(g)' /\ ConfirmedInv(g)'
    BY <1>2, <1>3, <1>4, <1>5 DEF Local, AwaitsInv, ReplyInv, SequenceInv, UploadInv, ConfirmedInv,
          Saving, SaveRequest
  <2>2. OpeningInv(g)' /\ RestInv(g)'
    BY <1>1, <1>2, <1>3, <1>4, <1>5 DEF Local, OpeningInv, RestInv, Unrefused
  <2>3. UploadingInv(g)' /\ ReleasingInv(g)'
    BY <1>2, <1>3, <1>4, <1>5 DEF Local, UploadingInv, ReleasingInv, Unrefused, Saving, NoCommit,
       Settled, Agreed, Only
  <2>4. CommittingInv(g)'
    <3>1. SUFFICES ASSUME open, Saving(g), client[g].awaits.op = "Commit"
                   PROVE  CommittingInv(g)'
      BY <1>2, <1>4, <1>5 DEF CommittingInv, Unrefused, Saving
    <3>2. client[g].awaits = Request("Commit", g, client[g].sequence)
      BY <1>3, <3>1, AwaitedForms DEF Local, IInv
    <3>3. Only(g, Pending(g) \cup {Request("Commit", g, client[g].sequence)}, client[g].sequence - 1)
          => Only(g, Pending(g) \cup {Request("Commit", g, client[g].sequence)}, client[g].sequence - 1)'
      BY <1>4, <1>5, <3>2 DEF Only, Pending
    <3> QED BY <1>2, <1>3, <1>4, <1>5, <3>1, <3>3 DEF Local, CommittingInv, Saving, Agreed,
               Holds, NoCommit,
            Effects
  <2> QED BY SMTT(30), <2>1, <2>2, <2>3, <2>4 DEF Local
<1> QED BY <1>1, <1>3, <1>4, <1>5, <1>6, <1>7, ActsHold

LEMMA CallRevokeHolds ==
  ASSUME IInv, NEW g \in Tickets, CallRevoke(g)
  PROVE  IInv'
<1>1. /\ client[g].stage = "Ready"
      /\ client' = [client EXCEPT ![g].stage = "Revoking", ![g].blocked = TRUE]
      /\ UNCHANGED <<host, net, disposed, chooser, saves>>
  BY DEF CallRevoke
<1>2. client[g] \in Entries /\ Active(g) /\ Local(g)
  BY <1>1, OfTheEntry DEF Active
<1>3. /\ client' \in [Tickets -> Entries] /\ client'[g].reply = client[g].reply
      /\ client'[g].stage = "Revoking" /\ client'[g].awaits = client[g].awaits
      /\ client'[g].sequence = client[g].sequence /\ client'[g].revision = client[g].revision
      /\ client'[g].blocked = TRUE /\ client'[g].opened = client[g].opened
      /\ client'[g].error = client[g].error /\ client'[g].draft = client[g].draft
      /\ client'[g].seen = client[g].seen
      /\ \A f \in Tickets \ {g} : client'[f] = client[f]
  <2>1. [client[g] EXCEPT !.stage = "Revoking", !.blocked = TRUE] \in Entries
    BY <1>2 DEF Entries, Stages
  <2>2. client' = [client EXCEPT ![g] = [client[g] EXCEPT !.stage = "Revoking", !.blocked = TRUE]]
    BY <1>1, <1>2 DEF IInv, Types, ClientTypes, Entries
  <2> QED BY <1>2, <2>1, <2>2 DEF IInv, Types, ClientTypes, Entries
<1>4. /\ grant' = grant /\ open' = open /\ saves' = saves /\ net' = net
      /\ SameChooser /\ Follows(g)
      /\ Saving(g)' <=> Saving(g)
  BY <1>1, <1>3 DEF host, SameChooser, Follows, Saving
<1>5. ClientActs(g)
  <2>1. ClientTypes'
    BY <1>1, <1>3 DEF IInv, Types, ClientTypes
  <2> QED BY <1>1, <1>3, <2>1 DEF ClientActs
<1>6. Local(g)'
  <2>1. SaveRequest(g)' <=> SaveRequest(g)
    BY <1>3 DEF SaveRequest
  <2>6. AwaitsInv(g)'
    BY <1>1, <1>2, <1>3, <1>4, <2>1 DEF Local, AwaitsInv
  <2>7. ReplyInv(g)' /\ ConfirmedInv(g)'
    BY SMTT(30), <1>1, <1>2, <1>3, <1>4 DEF Local, ReplyInv, ConfirmedInv
  <2>8. SequenceInv(g)' /\ UploadInv(g)'
    BY <1>1, <1>2, <1>3, <1>4 DEF Local, SequenceInv, UploadInv
  <2>2. OpeningInv(g)' /\ RestInv(g)'
    BY <1>3 DEF OpeningInv, RestInv
  <2>4. UploadingInv(g)' /\ ReleasingInv(g)'
    BY <1>2, <1>3, <1>4 DEF Local, UploadingInv, ReleasingInv, Unrefused, NoCommit, Settled,
       Agreed, Holds, Only, Pending
  <2>5. CommittingInv(g)'
    BY <1>2, <1>3, <1>4 DEF Local, CommittingInv, Unrefused, NoCommit, Agreed, Holds, Only, Pending
  <2> QED BY <2>2, <2>4, <2>5, <2>6, <2>7, <2>8 DEF Local
<1> QED BY <1>1, <1>2, <1>3, <1>4, <1>5, <1>6, ActsHold

LEMMA SendRevokeHolds ==
  ASSUME IInv, NEW g \in Tickets, SendRevoke(g)
  PROVE  IInv'
<1>1. /\ client[g].stage = "Revoking" /\ client[g].awaits = NoRequest
      /\ UNCHANGED <<host, disposed, chooser, saves>>
  BY DEF SendRevoke
<1>2. PICK m \in Requests : m = Request("Revoke", g, 0) /\ m.op = "Revoke" /\ m.grant = g /\ m.sequence = 0
  BY Made DEF Requests
<1>3. client[g] \in Entries /\ Active(g) /\ Local(g) /\ ~Saving(g) /\ client[g].sequence \in Nat
  BY <1>1, OfTheEntry DEF Active, Saving, NoRequest, SaveOps
<1>4. Sends(g, client[g], m) /\ ClientTypes
  BY <1>2 DEF SendRevoke, IInv, Types
<1>5. Sent(g, client[g], m)
  BY <1>3, <1>4, SendsGives
<1>6. ClientActs(g) /\ grant' = grant /\ open' = open /\ saves' = saves
  BY <1>1, <1>2, <1>3, <1>4, SendsActs DEF ChooserMoves, IInv, Types, ClientTypes, host
<1>7. Local(g)'
  <2>1. ~Saving(g)'
    BY <1>2, <1>5 DEF Saving, SaveOps, Sent
  <2>2. AwaitsInv(g)'
    BY <1>1, <1>2, <1>3, <1>5, <2>1 DEF AwaitsInv, Local, Sent
  <2>3. /\ ReplyInv(g)' /\ ConfirmedInv(g)' /\ RestInv(g)' /\ UploadingInv(g)' /\ CommittingInv(g)'
        /\ ReleasingInv(g)' /\ OpeningInv(g)'
    BY <1>1, <1>5, <2>1 DEF ReplyInv, ConfirmedInv, RestInv, UploadingInv, CommittingInv,
       ReleasingInv,
          OpeningInv, Sent
  <2>4. SequenceInv(g)'
    BY <1>1, <1>2, <1>3, <1>5, AskedSequence DEF Sent
  <2>5. UploadInv(g)'
    BY <1>1, <1>2, <1>5, AskedUpload DEF Sent
  <2> QED BY <2>2, <2>3, <2>4, <2>5 DEF Local
<1> QED BY <1>1, <1>3, <1>5, <1>6, <1>7, ActsHold DEF SameChooser, Follows, Sent

LEMMA RevokedHolds ==
  ASSUME IInv, NEW g \in Tickets, Revoked(g)
  PROVE  IInv'
<1>1. /\ client[g].stage = "Revoking" /\ client[g].awaits.op = "Revoke"
      /\ UNCHANGED <<host, disposed, chooser, saves>>
  BY DEF Revoked, Awaits
<1>2. client[g] \in Entries /\ Active(g) /\ client[g].blocked
  BY <1>1, OfTheEntry DEF Active, Local, AwaitsInv
<1>3. Gone \in Entries /\ Gone.stage = "Gone"
  BY DEF Gone, NoEntry, Entries, Stages, NoReply, Replies, Effects, Inventory
<1>4. PICK entry \in Entries :
        /\ Rests(g, entry)
        /\ \/ entry.stage = "Gone"
           \/ /\ entry.stage = "Ready" /\ entry.sequence = client[g].sequence
              /\ entry.blocked
  <2>1. [client[g] EXCEPT !.stage = "Ready"] \in Entries
    BY <1>2 DEF Entries, Stages
  <2> QED BY <1>2, <1>3, <2>1 DEF Revoked, Entries
<1>5. ~Saving(g) /\ ChooserMoves /\ SameChooser
  BY <1>1 DEF Saving, SaveOps, ChooserMoves, SameChooser
<1>6. Follows(g)
  <2>1. Rested(g, entry)
    BY <1>4, RestsGives DEF IInv, Types
  <2> QED BY <1>1, <1>4, <2>1 DEF Rested, Follows
<1> QED BY <1>1, <1>2, <1>4, <1>5, <1>6, RestsHold

-----------------------------------------------------------------------------
(* The end of a save.                                                      *)

(* The drafts of an upload that the host has or that is on its way. *)
LEMMA UploadDrafts ==
  ASSUME IInv, NEW g \in Tickets, grant[g].held
  PROVE  /\ grant[g].transfer.kind = "Upload" =>
              \A k \in 1..Len(grant[g].transfer.chunks) : grant[g].transfer.chunks[k] \in Drafts
         /\ \A m \in net : (ForGrant(m, g) /\ m.op = "Write") => m.draft \in Drafts
         /\ \A m \in net :
              (ForGrant(m, g) /\ m.op = "Commit" /\ IsActive(grant[g].transfer, "Upload", m.sequence)) =>
                 1 \in 1..Len(grant[g].transfer.chunks)
<1>1. grant[g] \in Grants /\ grant[g].transfer \in Transfers
  BY GrantForms DEF IInv, Types, HostTypes, Grants
<1>2. grant[g].transfer.kind = "Upload" =>
        \A k \in 1..Len(grant[g].transfer.chunks) : grant[g].transfer.chunks[k] \in Drafts
  BY <1>1, TransferForms, ElementOfSeq
<1>3. \A m \in net : ForGrant(m, g) /\ m.op = "Write" => m.draft \in Drafts
  BY Mine, RequestForms DEF Writes, IInv
<1>4. \A m \in net :
        ForGrant(m, g) /\ m.op = "Commit" /\ IsActive(grant[g].transfer, "Upload", m.sequence) =>
          1 \in 1..Len(grant[g].transfer.chunks)
  BY BoundsAssumption DEF IInv, Local, UploadInv, IsActive
<1> QED BY <1>2, <1>3, <1>4

(* The host's commit of the draft would be a surprise. *)
Committable(g) ==
  /\ grant[g].held
  /\ \E m \in net : /\ ForGrant(m, g) /\ m.op = "Commit"
                    /\ IsActive(grant[g].transfer, "Upload", m.sequence)

LEMMA SaveEnds ==
  ASSUME IInv, NEW g \in Tickets, Saving(g), NEW d \in Drafts, d = client[g].draft,
         NEW entry \in Entries, Rests(g, entry),
         entry.stage = client[g].stage, entry.sequence = client[g].sequence,
         entry.revision = client[g].revision, entry.seen = client[g].seen,
         client[g].blocked => entry.blocked,
         UNCHANGED <<host, disposed, chooser>>,
         NEW r \in {"Saved", "NotSaved", "Unknown"}, NEW n \in Nat,
         saves' = [saves EXCEPT ![d] = [saves[d] EXCEPT !.result = r, !.revision = n]],
         r = "Saved" => saves[d].confirmed = n,
         (r = "NotSaved" /\ open) => ~saves[d].reached,
         r = "Unknown" \/ ~Committable(g),
         (~entry.blocked /\ open) =>
            Settled(g, client[g].sequence) /\ Only(g, {}, client[g].sequence)
  PROVE  IInv'
<1>1. /\ client[g] \in Entries /\ Local(g) /\ Active(g) /\ client[g].sequence \in Nat
      /\ saves \in [Drafts -> Records] /\ ClientTypes
      /\ client[g].stage \in {"Ready", "Revoking"}
  BY OfTheEntry DEF Saving, Active, IInv, Types
<1>2. /\ saves' \in [Drafts -> Records]
      /\ saves'[d].result = r /\ saves'[d].revision = n /\ saves'[d].base = saves[d].base
      /\ saves'[d].reached = saves[d].reached /\ saves'[d].confirmed = saves[d].confirmed
      /\ \A e \in Drafts \ {d} : saves'[e] = saves[e]
  BY ZenonT(30), <1>1 DEF Records, Results
<1>3. Rested(g, entry)
  BY <1>1, RestsGives
<1>4. ClientActs(g) /\ grant' = grant /\ open' = open /\ net' = net /\ SameChooser /\ Follows(g)
  BY <1>1, <1>2, <1>3, RestsActs DEF ChooserMoves, host, SameChooser, Follows, Rested
<1>5. Owns(g, d) /\ \A f \in Tickets \ {g} : ~Owns(f, d)
  <2>1. Owns(g, d)
    BY DEF Owns
  <2> QED BY <2>1 DEF IInv, DraftInv
<1>6. StepOf(g)
  BY <1>1, <1>2, <1>4, <1>5 DEF StepOf, ClientActs, host
<1>7. PickerInv' /\ \A f \in Tickets : TicketInv(f)'
  BY <1>1, <1>4, <1>6, MovesTickets
<1>8. Local(g)'
  <2>1. ~Saving(g)'
    BY <1>3 DEF Saving, NoRequest, SaveOps, Rested
  <2>2. AwaitsInv(g)'
    BY <1>1, <1>3, <2>1 DEF AwaitsInv, Rested, Local
  <2>3. /\ ReplyInv(g)' /\ ConfirmedInv(g)' /\ UploadingInv(g)' /\ CommittingInv(g)'
        /\ ReleasingInv(g)' /\ OpeningInv(g)'
    BY <1>1, <1>3, <2>1 DEF ReplyInv, ConfirmedInv, UploadingInv, CommittingInv, ReleasingInv,
       OpeningInv,
       Rested
  <2>4. SequenceInv(g)'
    BY <1>1, <1>3, <1>4 DEF Local, SequenceInv, Active, Rested
  <2>5. RestInv(g)'
    BY SMTT(30), <1>3, <1>4 DEF RestInv, Rested, Settled, Agreed, Only
  <2>6. UploadInv(g)'
    <3>1. SUFFICES ASSUME grant[g].held
                   PROVE  UploadInv(g)'
      BY <1>4 DEF UploadInv
    <3>2. \A e \in Drafts : saves'[e].base = saves[e].base
      BY <1>2
    <3>3. ASSUME NEW m \in net, ForGrant(m, g), m.op = "Commit",
                 IsActive(grant[g].transfer, "Upload", m.sequence)
          PROVE  saves'[grant[g].transfer.chunks[1]].result \in {"Saving", "Unknown"}
      <4>1. Committable(g) /\ r = "Unknown"
        BY <3>1, <3>3 DEF Committable
      <4>2. grant[g].transfer.chunks[1] \in Drafts
        BY <3>1, <3>3, UploadDrafts DEF IsActive
      <4>3. saves[grant[g].transfer.chunks[1]].result \in {"Saving", "Unknown"}
        BY <1>1, <3>1, <3>3 DEF Local, UploadInv
      <4> QED BY <1>2, <4>1, <4>2, <4>3
    <3> QED BY SMTT(30), <1>1, <1>4, <3>1, <3>2, <3>3, UploadDrafts DEF Local, UploadInv
  <2> QED BY <2>2, <2>3, <2>4, <2>5, <2>6 DEF Local
<1>9. \A f \in Tickets : Local(f)'
  BY <1>6, <1>8, OthersLocal
<1>10. ASSUME NEW e \in Drafts
       PROVE  DraftInv(e)'
  <2>1. ASSUME NEW f \in Tickets, Owns(f, e)'
        PROVE  Owns(f, e)
    BY <1>3, <1>4, <2>1, ContentsAssumption DEF Owns, Rested
  <2>2. client'[g].draft = NoContent /\ NoContent # e
    BY <1>3, ContentsAssumption DEF Rested
  <2>3. CASE e = d
    <3>1. \A f \in Tickets : client'[f].draft # d
      BY <1>3, <1>5, <2>2, <2>3 DEF Owns, Rested
    <3> QED BY <1>2, <1>4, <2>1, <2>3, <3>1 DEF IInv, DraftInv
  <2>4. CASE e # d
    <3>1. \A f \in Tickets : client'[f].draft = e <=> client[f].draft = e
      BY <1>3, <2>2, <2>4 DEF Rested
    <3> QED BY <1>2, <1>4, <2>1, <2>4, <3>1, DraftKept DEF IInv
  <2> QED BY <2>3, <2>4
<1>11. Types'
  BY <1>4 DEF ClientActs, host, IInv, Types, HostTypes
<1> QED BY <1>7, <1>9, <1>10, <1>11 DEF IInv

LEMMA SaveFailsHolds ==
  ASSUME IInv, NEW g \in Tickets, Saving(g), NEW effect, SaveFails(g, effect),
         UNCHANGED <<host, disposed, chooser>>,
         (effect = "none" /\ open) => ~saves[client[g].draft].reached /\ ~Committable(g)
  PROVE  IInv'
<1>1. /\ client[g] \in Entries /\ Local(g) /\ saves \in [Drafts -> Records] /\ client[g].draft \in Drafts
      /\ (~open) => ~grant[g].held
  BY OfTheEntry, AwaitedForms DEF Local, IInv
<1>2. PICK d \in Drafts : d = client[g].draft
  BY <1>1
<1>3. PICK r \in {"NotSaved", "Unknown"} : r = IF effect = "none" THEN "NotSaved" ELSE "Unknown"
  OBVIOUS
<1>4. PICK n \in Nat : n = saves[d].revision
  BY <1>1 DEF Records
<1>5. saves' = [saves EXCEPT ![d] = [saves[d] EXCEPT !.result = r, !.revision = n]]
  BY <1>1, <1>2, <1>3, <1>4 DEF SaveFails, Records
<1>6. PICK entry \in Entries :
        /\ entry = [client[g] EXCEPT !.blocked = TRUE]
        /\ entry.stage = client[g].stage /\ entry.sequence = client[g].sequence
        /\ entry.revision = client[g].revision /\ entry.seen = client[g].seen /\ entry.blocked
  <2>1. [client[g] EXCEPT !.blocked = TRUE] \in Entries
    BY <1>1 DEF Entries
  <2> QED BY <1>1, <2>1 DEF Entries
<1>7. Rests(g, entry)
  BY <1>6 DEF SaveFails
<1>8. /\ (r = "NotSaved" /\ open) => ~saves[d].reached
      /\ r = "Unknown" \/ ~Committable(g)
  BY <1>1, <1>2, <1>3 DEF Committable
<1> QED BY ZenonT(30), <1>2, <1>3, <1>5, <1>6, <1>7, <1>8, SaveEnds

LEMMA UploadFailsHolds ==
  ASSUME IInv, NEW g \in Tickets, UploadFails(g)
  PROVE  IInv'
<1>1. /\ client[g].awaits.op \in {"CheckSession", "BeginEdit", "Write"}
      /\ SaveFails(g, client[g].reply.effect) /\ UNCHANGED <<host, disposed, chooser>>
  BY DEF UploadFails, Awaits
<1>2. Saving(g) /\ Local(g)
  BY <1>1, StageOf, OfTheEntry
<1>3. open => ~saves[client[g].draft].reached /\ ~Committable(g)
  BY <1>1, <1>2 DEF Local, UploadingInv, NoCommit, Committable
<1> QED BY <1>1, <1>2, <1>3, SaveFailsHolds

LEMMA SaveReleasedHolds ==
  ASSUME IInv, NEW g \in Tickets, SaveReleased(g)
  PROVE  IInv'
<1>1. /\ client[g].stage \in {"Ready", "Revoking"} /\ client[g].awaits.op = "Release"
      /\ saves' = [saves EXCEPT ![client[g].draft].result = "Saved",
                                ![client[g].draft].revision = client[g].revision]
      /\ Rests(g, client[g]) /\ UNCHANGED <<host, disposed, chooser>>
  BY DEF SaveReleased, Awaits
<1>2. /\ Saving(g) /\ Local(g) /\ client[g] \in Entries /\ saves \in [Drafts -> Records]
      /\ (~open) => ~grant[g].held
  BY <1>1, OfTheEntry DEF Saving, SaveOps
<1>3. client[g].draft \in Drafts /\ client[g].revision \in Nat
  BY <1>2, AwaitedForms DEF Local, IInv, Entries
<1>4. PICK d \in Drafts : d = client[g].draft
  BY <1>3
<1>5. PICK n \in Nat : n = client[g].revision
  BY <1>3
<1>6. saves' = [saves EXCEPT ![d] = [saves[d] EXCEPT !.result = "Saved", !.revision = n]]
  BY <1>1, <1>2, <1>4, <1>5 DEF Records
<1>7. saves[d].confirmed = n
  BY <1>1, <1>2, <1>4, <1>5 DEF Local, ConfirmedInv
<1>8. open => Settled(g, client[g].sequence) /\ Only(g, {}, client[g].sequence)
  BY <1>1, <1>2 DEF Local, ReleasingInv
<1>9. ~Committable(g)
  BY <1>2, <1>8 DEF Committable, Settled, IsActive
<1> QED BY ZenonT(30), <1>1, <1>2, <1>4, <1>6, <1>7, <1>8, <1>9, SaveEnds

-----------------------------------------------------------------------------
(* A save that goes on.                                                    *)

LEMMA SavingForms ==
  ASSUME IInv, NEW g \in Tickets, Saving(g)
  PROVE  /\ Active(g) /\ client[g].stage \in {"Ready", "Revoking"} /\ Local(g)
         /\ client[g] \in Entries /\ client[g].sequence \in Nat /\ client[g].revision \in Nat
         /\ client[g].draft \in Drafts /\ Owns(g, client[g].draft)
         /\ saves[client[g].draft].result = "Saving"
         /\ saves \in [Drafts -> Records]
         /\ (~open) => ~grant[g].held
BY OfTheEntry, AwaitedForms DEF Saving, Active, Owns, IInv, DraftInv, Local

(* The next request of a save: what is left to show is who agrees. *)
LEMMA SaveGoesOn ==
  ASSUME IInv, NEW g \in Tickets, Saving(g), NEW entry \in Entries, NEW m \in Requests,
         Sends(g, entry, m), UNCHANGED <<host, disposed, chooser, saves>>,
         entry.stage = client[g].stage, entry.sequence = client[g].sequence,
         entry.blocked = client[g].blocked, entry.draft = client[g].draft,
         m.grant = g, m.sequence = client[g].sequence,
         m.op = "Write" => m.draft = client[g].draft,
         m.op \in SaveOps, SaveRequest(g)',
         m.op # "Release" \/ saves[client[g].draft].confirmed = entry.revision,
         UploadingInv(g)', CommittingInv(g)', ReleasingInv(g)', UploadInv(g)'
  PROVE  IInv'
<1>1. ClientTypes /\ ClientActs(g)
  BY SendsActs DEF ChooserMoves, IInv, Types, ClientTypes
<1>2. Sent(g, entry, m)
  BY <1>1, SendsGives
<1>3. /\ Active(g) /\ client[g].stage \in {"Ready", "Revoking"} /\ Local(g)
      /\ client[g].sequence \in Nat /\ client[g].draft \in Drafts
  BY SavingForms
<1>4. AwaitsInv(g)'
  BY <1>2, <1>3 DEF AwaitsInv, Local, Sent, Saving
<1>5. ReplyInv(g)' /\ OpeningInv(g)' /\ RestInv(g)'
  BY <1>2, <1>3, RequestForms DEF ReplyInv, OpeningInv, RestInv, Sent
<1>6. SequenceInv(g)'
  BY <1>2, <1>3, AskedSequence DEF Sent
<1>7. ConfirmedInv(g)'
  BY <1>2 DEF ConfirmedInv, Sent
<1>8. Local(g)'
  BY <1>4, <1>5, <1>6, <1>7 DEF Local
<1>9. SameChooser /\ Follows(g) /\ client'[g].draft = client[g].draft
  BY <1>2 DEF SameChooser, Follows, Sent
<1> QED BY <1>1, <1>3, <1>8, <1>9, ActsHold

LEMMA SaveCheckedHolds ==
  ASSUME IInv, NEW g \in Tickets, SaveChecked(g)
  PROVE  IInv'
<1> DEFINE n == client[g].sequence
<1>1. /\ client[g].awaits.op = "CheckSession" /\ client[g].reply # NoReply /\ client[g].reply.is = "Ok"
      /\ UNCHANGED <<host, disposed, chooser, saves>>
  BY DEF SaveChecked, Awaits, Succeeded
<1>2. Saving(g)
  BY <1>1, StageOf
<1>3. /\ client[g] \in Entries /\ n \in Nat /\ client[g].revision \in Nat /\ Local(g)
      /\ client[g].draft \in Drafts
  BY <1>2, SavingForms
<1>4. PICK m \in Requests :
        /\ m = BeginRequest(g, n, client[g].revision)
        /\ m.op = "BeginEdit" /\ m.grant = g /\ m.sequence = n
  BY <1>3, Made DEF Requests
<1>5. Sends(g, client[g], m) /\ ClientTypes
  BY <1>4 DEF SaveChecked, IInv, Types
<1>6. Sent(g, client[g], m)
  BY <1>3, <1>5, SendsGives
<1>7. grant' = grant /\ open' = open /\ saves' = saves
  BY <1>1 DEF host
<1>8. SaveRequest(g)'
  BY <1>4, <1>6 DEF SaveRequest, Sent
<1>9. /\ UploadInv(g)' /\ CommittingInv(g)' /\ ReleasingInv(g)'
  BY <1>1, <1>4, <1>6, AskedUpload DEF CommittingInv, ReleasingInv, Sent
<1>10. UploadingInv(g)'
  <2>1. Only(g, {}, n - 1) => Only(g, {m}, n - 1)'
    BY <1>6 DEF Only, Sent
  <2>2. NoCommit(g) => NoCommit(g)'
    BY <1>4, <1>6 DEF NoCommit, Sent
  <2>3. open => /\ n > 0 /\ NoCommit(g) /\ ~saves[client[g].draft].reached
                /\ saves[client[g].draft].base = client[g].seen
                /\ Only(g, {}, n - 1) /\ Settled(g, n - 1) /\ Agreed(g)
    BY <1>1, <1>2, <1>3, OnlyAnswered DEF Local, UploadingInv, Unrefused
  <2>4. Settled(g, n - 1) => Settled(g, n - 1)'
    BY <1>6, <1>7 DEF Settled, Agreed, Sent
  <2>5. n' = n /\ client'[g].draft = client[g].draft /\ client'[g].seen = client[g].seen
        /\ client'[g].reply = NoReply /\ client'[g].awaits = m
    BY <1>6 DEF Sent
  <2>6. Settled(g, n - 1)' => Agreed(g)'
    BY DEF Settled
  <2>7. Only(g, {m}, n - 1)' => Only(g, Pending(g), n - 1)'
    BY <2>5 DEF Only, Pending
  <2> QED BY <1>4, <1>7, <2>1, <2>2, <2>3, <2>4, <2>5, <2>6, <2>7 DEF UploadingInv
<1> QED BY <1>1, <1>2, <1>3, <1>4, <1>5, <1>8, <1>9, <1>10, SaveGoesOn DEF SaveOps

(* The host has the first chunks of the save, and of it no other request. *)
Uploading(g, len) ==
  /\ client[g].sequence > 0
  /\ NoCommit(g)
  /\ ~saves[client[g].draft].reached
  /\ saves[client[g].draft].base = client[g].seen
  /\ Only(g, {}, client[g].sequence - 1)
  /\ Agreed(g)
  /\ Holds(g, client[g].sequence)
  /\ Len(grant[g].transfer.chunks) = len

LEMMA ChunkSentHolds ==
  ASSUME IInv, NEW g \in Tickets, Saving(g), NEW offset \in Nat, offset < Chunks,
         SendChunk(g, offset), UNCHANGED <<host, disposed, chooser, saves>>,
         open => Uploading(g, offset)
  PROVE  IInv'
<1>1. PICK n \in Nat : n = client[g].sequence
  BY SavingForms
<1>2. PICK d \in Drafts : d = client[g].draft
  BY SavingForms
<1>3. client[g] \in Entries /\ Local(g) /\ saves[d].result = "Saving"
  BY <1>2, SavingForms
<1>4. PICK m \in Requests :
        /\ m = WriteRequest(g, n, offset, d) /\ m \in Writes
        /\ m.op = "Write" /\ m.grant = g /\ m.sequence = n /\ m.offset = offset /\ m.draft = d
  BY <1>1, <1>2, Made DEF Requests
<1>5. Sends(g, client[g], m) /\ ClientTypes
  BY <1>1, <1>2, <1>4 DEF SendChunk, IInv, Types
<1>6. Sent(g, client[g], m)
  BY <1>3, <1>5, SendsGives
<1>7. /\ grant' = grant /\ open' = open /\ saves' = saves /\ net' = net \cup {m}
      /\ client'[g].sequence = n /\ client'[g].draft = d /\ client'[g].seen = client[g].seen
      /\ client'[g].reply = NoReply /\ client'[g].awaits = m /\ client'[g].revision = client[g].revision
  BY <1>1, <1>2, <1>6 DEF host, Sent
<1>8. SaveRequest(g)'
  BY <1>4, <1>7 DEF SaveRequest
<1>9. CommittingInv(g)' /\ ReleasingInv(g)'
  BY <1>4, <1>7 DEF CommittingInv, ReleasingInv
<1>10. UploadingInv(g)'
  <2>1. Only(g, {}, n - 1) => Only(g, Pending(g), n - 1)'
    BY <1>7 DEF Only, Pending
  <2>2. NoCommit(g) => NoCommit(g)'
    BY <1>4, <1>7 DEF NoCommit
  <2>3. Agreed(g) => Agreed(g)'
    BY <1>7 DEF Agreed
  <2>4. Holds(g, n) => Holds(g, n)'
    BY <1>2, <1>7 DEF Holds
  <2> QED BY <1>1, <1>2, <1>4, <1>7, <2>1, <2>2, <2>3, <2>4 DEF UploadingInv, Uploading
<1>11. UploadInv(g)'
  <2>1. SUFFICES ASSUME grant[g].held
                 PROVE  UploadInv(g)'
    BY <1>7 DEF UploadInv
  <2>2. /\ \A k \in 1..Len(grant[g].transfer.chunks) : grant[g].transfer.chunks[k] = d
        /\ grant[g].baseline = saves[d].base /\ grant[g].retired = n
        /\ \A o \in net : ForGrant(o, g) => o.op = "Release"
    BY <1>1, <1>2, <2>1, SavingForms, Mine DEF Uploading, Holds, Agreed, Only
  <2>3. \A o \in net' : (ForGrant(o, g) /\ o.op \in {"Write", "Commit"}) => o = m
    BY <1>7, <2>2
  <2>4. /\ grant[g].transfer.kind = "Upload" =>
             /\ Len(grant[g].transfer.chunks) <= Chunks
             /\ \A k \in 1..Len(grant[g].transfer.chunks) :
                  /\ grant[g].transfer.chunks[k] = grant[g].transfer.chunks[1]
                  /\ grant[g].baseline = saves[grant[g].transfer.chunks[k]].base
    BY <1>3, <2>1 DEF Local, UploadInv
  <2>5. n <= n
    BY <1>1
  <2> QED BY <1>4, <1>7, <2>2, <2>3, <2>4, <2>5 DEF UploadInv
<1> QED BY <1>1, <1>2, <1>3, <1>4, <1>5, <1>8, <1>9, <1>10, <1>11, SaveGoesOn DEF SaveOps

LEMMA SaveBegunHolds ==
  ASSUME IInv, NEW g \in Tickets, SaveBegun(g)
  PROVE  IInv'
<1>1. /\ client[g].awaits.op = "BeginEdit" /\ client[g].reply # NoReply /\ client[g].reply.is = "Ok"
      /\ SendChunk(g, 0) /\ UNCHANGED <<host, disposed, chooser, saves>>
  BY DEF SaveBegun, Awaits, Succeeded
<1>2. Saving(g)
  BY <1>1, StageOf
<1>3. open => Uploading(g, 0)
  BY <1>1, <1>2, SavingForms, OnlyAnswered DEF Local, UploadingInv, Unrefused, Uploading
<1>4. 0 \in Nat /\ 0 < Chunks
  BY BoundsAssumption
<1> QED BY <1>1, <1>2, <1>3, <1>4, ChunkSentHolds

LEMMA CommitSentHolds ==
  ASSUME IInv, NEW g \in Tickets, Saving(g),
         Sends(g, client[g], Request("Commit", g, client[g].sequence)),
         UNCHANGED <<host, disposed, chooser, saves>>,
         open => Uploading(g, Chunks)
  PROVE  IInv'
<1>1. PICK n \in Nat : n = client[g].sequence
  BY SavingForms
<1>2. PICK d \in Drafts : d = client[g].draft
  BY SavingForms
<1>3. client[g] \in Entries /\ Local(g) /\ saves[d].result = "Saving"
  BY <1>2, SavingForms
<1>4. PICK m \in Requests :
        /\ m = Request("Commit", g, n)
        /\ m.op = "Commit" /\ m.grant = g /\ m.sequence = n
  BY <1>1, Made DEF Requests
<1>5. Sends(g, client[g], m) /\ ClientTypes
  BY <1>1, <1>4 DEF IInv, Types
<1>6. Sent(g, client[g], m)
  BY <1>3, <1>5, SendsGives
<1>7. /\ grant' = grant /\ open' = open /\ saves' = saves /\ net' = net \cup {m}
      /\ client'[g].sequence = n /\ client'[g].draft = d /\ client'[g].seen = client[g].seen
      /\ client'[g].reply = NoReply /\ client'[g].awaits = m /\ client'[g].revision = client[g].revision
  BY <1>1, <1>2, <1>6 DEF host, Sent
<1>8. NoReply.is = "None"
  BY DEF NoReply
<1>9. SaveRequest(g)'
  BY <1>4, <1>7 DEF SaveRequest
<1>10. UploadingInv(g)' /\ ReleasingInv(g)'
  BY <1>4, <1>7 DEF UploadingInv, ReleasingInv
<1>11. CommittingInv(g)'
  <2>1. Only(g, {}, n - 1) => Only(g, Pending(g) \cup {Request("Commit", g, n)}, n - 1)'
    BY <1>7 DEF Only, Pending
  <2>2. Agreed(g) => Agreed(g)'
    BY <1>7 DEF Agreed
  <2>3. Holds(g, n) => Holds(g, n)'
    BY <1>2, <1>7 DEF Holds
  <2>4. open => grant[g].transfer.kind = "Upload" /\ grant[g].transfer.sequence = n /\ grant[g].retired = n
                /\ grant[g].held
    BY <1>1 DEF Uploading, Holds, IsActive, Agreed
  <2>5. open => n > 0 /\ ~saves[d].reached /\ saves[d].base = client[g].seen /\ Only(g, {}, n - 1)
                /\ Agreed(g) /\ Holds(g, n) /\ Len(grant[g].transfer.chunks) = Chunks
    BY <1>1, <1>2 DEF Uploading
  <2> QED BY <1>4, <1>7, <1>8, <2>1, <2>2, <2>3, <2>4, <2>5 DEF CommittingInv
<1>12. UploadInv(g)'
  <2>1. SUFFICES ASSUME grant[g].held
                 PROVE  UploadInv(g)'
    BY <1>7 DEF UploadInv
  <2>2. /\ \A k \in 1..Len(grant[g].transfer.chunks) : grant[g].transfer.chunks[k] = d
        /\ Len(grant[g].transfer.chunks) = Chunks /\ grant[g].retired = n
        /\ \A o \in net : ForGrant(o, g) => o.op = "Release"
    BY <1>1, <1>2, <2>1, SavingForms DEF Uploading, Holds, Agreed, Only
  <2>3. \A o \in net' : (ForGrant(o, g) /\ o.op \in {"Write", "Commit"}) => o = m
    BY <1>7, <2>2
  <2>4. /\ grant[g].transfer.kind = "Upload" =>
             /\ Len(grant[g].transfer.chunks) <= Chunks
             /\ \A k \in 1..Len(grant[g].transfer.chunks) :
                  /\ grant[g].transfer.chunks[k] = grant[g].transfer.chunks[1]
                  /\ grant[g].baseline = saves[grant[g].transfer.chunks[k]].base
    BY <1>3, <2>1 DEF Local, UploadInv
  <2>5. n <= n /\ grant[g].transfer.chunks[1] = d
    BY <1>1, <2>2, BoundsAssumption
  <2> QED BY <1>3, <1>4, <1>7, <2>2, <2>3, <2>4, <2>5 DEF UploadInv
<1> QED BY <1>1, <1>2, <1>3, <1>4, <1>5, <1>9, <1>10, <1>11, <1>12, SaveGoesOn DEF SaveOps

LEMMA ChunkWrittenHolds ==
  ASSUME IInv, NEW g \in Tickets, ChunkWritten(g)
  PROVE  IInv'
<1> DEFINE next == client[g].awaits.offset + 1
<1>1. /\ client[g].awaits.op = "Write" /\ client[g].reply # NoReply /\ client[g].reply.is = "Ok"
      /\ UNCHANGED <<host, disposed, chooser, saves>>
  BY DEF ChunkWritten, Awaits, Succeeded
<1>2. Saving(g)
  BY <1>1, StageOf
<1>3. client[g].awaits.offset \in Nat /\ client[g].awaits.offset < Chunks
  BY <1>1, <1>2, SavingForms, AwaitedForms DEF Local, IInv
<1>4. PICK len \in Nat : len = next
  BY <1>3
<1>5. open => Uploading(g, len)
  <2>1. open => Uploading(g, next)
    BY <1>1, <1>2, SavingForms, OnlyAnswered DEF Local, UploadingInv, Unrefused, Uploading
  <2> QED BY <1>4, <2>1
<1>6. CASE len < Chunks
  <2>1. SendChunk(g, len)
    BY <1>4, <1>6 DEF ChunkWritten
  <2> QED BY <1>1, <1>2, <1>5, <1>6, <2>1, ChunkSentHolds
<1>7. CASE ~(len < Chunks)
  <2>1. len = Chunks
    BY <1>3, <1>4, <1>7, BoundsAssumption
  <2>2. Sends(g, client[g], Request("Commit", g, client[g].sequence))
    BY <1>4, <1>7 DEF ChunkWritten
  <2> QED BY <1>1, <1>2, <1>5, <2>1, <2>2, CommitSentHolds
<1> QED BY <1>6, <1>7

-----------------------------------------------------------------------------
(* The answers to a commit.                                                *)

(* The host has committed the save, and the client has heard so. *)
ConfirmedBy(g, revision) ==
  LET n == client[g].sequence IN
  /\ n > 0 /\ grant[g].held /\ grant[g].retired = n
  /\ grant[g].transfer.kind = "Committed" /\ grant[g].transfer.sequence = n
  /\ NoCommit(g) /\ Only(g, {Request("Commit", g, n)}, n - 1)
  /\ grant[g].revision = client[g].revision + 1
  /\ grant[g].baseline = client[g].draft
  /\ saves[client[g].draft].confirmed = revision

LEMMA ConfirmHolds ==
  ASSUME IInv, NEW g \in Tickets, Saving(g), NEW revision \in Nat, Confirm(g, revision),
         UNCHANGED <<host, disposed, chooser>>,
         saves[client[g].draft].confirmed = revision,
         open => ConfirmedBy(g, revision)
  PROVE  IInv'
<1>1. CASE revision # client[g].revision + 1
  <2>1. SaveFails(g, "unknown")
    BY <1>1 DEF Confirm
  <2> QED BY <2>1, SaveFailsHolds
<1>2. CASE revision = client[g].revision + 1
  <2>1. PICK n \in Nat : n = client[g].sequence
    BY SavingForms
  <2>2. PICK d \in Drafts : d = client[g].draft
    BY SavingForms
  <2>3. client[g] \in Entries /\ Local(g)
    BY SavingForms
  <2>4. PICK m \in Requests :
          m = Request("Release", g, n) /\ m.op = "Release" /\ m.grant = g /\ m.sequence = n
    BY <2>1, Made DEF Requests
  <2>5. PICK entry \in Entries :
          /\ entry = [client[g] EXCEPT !.revision = revision, !.seen = client[g].draft]
          /\ entry.stage = client[g].stage /\ entry.sequence = n /\ entry.blocked = client[g].blocked
          /\ entry.draft = d /\ entry.revision = revision /\ entry.seen = d
    <3>1. [client[g] EXCEPT !.revision = revision, !.seen = client[g].draft] \in Entries
      BY <2>2, <2>3, ContentsAssumption DEF Entries, Inventory
    <3> QED BY <2>1, <2>2, <2>3, <3>1 DEF Entries
  <2>6. Sends(g, entry, m) /\ ClientTypes /\ saves' = saves
    BY <1>2, <2>1, <2>4, <2>5 DEF Confirm, IInv, Types
  <2>7. Sent(g, entry, m)
    BY <2>6, SendsGives
  <2>8. /\ grant' = grant /\ open' = open /\ net' = net \cup {m}
        /\ client'[g].sequence = n /\ client'[g].seen = d
        /\ client'[g].awaits = m /\ client'[g].revision = revision
    BY <2>5, <2>7 DEF host, Sent
  <2>9. SaveRequest(g)'
    BY <2>4, <2>8 DEF SaveRequest
  <2>10. UploadingInv(g)' /\ CommittingInv(g)'
    BY <2>4, <2>8 DEF UploadingInv, CommittingInv
  <2>11. ReleasingInv(g)'
    <3>1. SUFFICES ASSUME open
                   PROVE  n > 0 /\ Settled(g, n)' /\ Only(g, {}, n)'
      BY <2>8 DEF ReleasingInv
    <3>2. Only(g, {}, n)'
      <4>1. \A o \in net : ForGrant(o, g) => o.op = "Release" /\ o.sequence <= n
        <5>1. \A o \in net : ForGrant(o, g) => o.op = "Release" /\ o.sequence <= n - 1
          BY <2>1, <3>1, Made DEF ConfirmedBy, Only, NoCommit
        <5>2. \A o \in net : ForGrant(o, g) => o.sequence \in Nat
          BY Mine, RequestForms DEF IInv
        <5> QED BY <5>1, <5>2
      <4>2. n <= n
        OBVIOUS
      <4> QED BY <2>4, <2>8, <4>1, <4>2 DEF Only
    <3>3. Settled(g, n)'
      BY <1>2, <2>1, <2>2, <2>8, <3>1, ContentsAssumption DEF ConfirmedBy, Settled, Agreed
    <3> QED BY <2>1, <3>1, <3>2, <3>3 DEF ConfirmedBy
  <2>12. UploadInv(g)'
    BY <2>4, <2>6, <2>8, AskedUpload
  <2> QED BY <2>1, <2>2, <2>4, <2>5, <2>6, <2>9, <2>10, <2>11, <2>12, SaveGoesOn DEF SaveOps
<1> QED BY <1>1, <1>2

LEMMA CommitAnsweredHolds ==
  ASSUME IInv, NEW g \in Tickets, CommitAnswered(g)
  PROVE  IInv'
<1> DEFINE reply == client[g].reply
           transfer == grant[g].transfer
<1>1. /\ client[g].awaits.op = "Commit" /\ client[g].reply # NoReply
      /\ UNCHANGED <<host, disposed, chooser>>
  BY DEF CommitAnswered, Awaits
<1>2. Saving(g)
  BY <1>1, StageOf
<1>3. PICK n \in Nat : n = client[g].sequence
  BY <1>2, SavingForms
<1>4. PICK d \in Drafts : d = client[g].draft
  BY <1>2, SavingForms
<1>5. /\ client[g] \in Entries /\ Local(g) /\ reply \in Replies
  BY <1>2, SavingForms DEF Entries
<1>6. open => /\ n > 0 /\ grant[g].held /\ transfer.kind \in {"Upload", "Committed", "Failed"}
              /\ transfer.sequence = n /\ grant[g].retired = n
              /\ Only(g, {Request("Commit", g, n)}, n - 1)
              /\ transfer.kind # "Upload" => NoCommit(g)
  BY <1>1, <1>2, <1>3, <1>5 DEF Local, CommittingInv, Pending
<1>7. CASE Succeeded(g)
  <2>1. PICK revision \in Nat : revision = reply.revision
    BY <1>1, <1>5, <1>7 DEF Local, ReplyInv, Succeeded
  <2>2. Confirm(g, revision)
    BY <1>7, <2>1 DEF CommitAnswered
  <2>3. saves[client[g].draft].confirmed = revision
    BY <1>1, <1>2, <1>5, <1>7, <2>1 DEF Local, ConfirmedInv, Succeeded
  <2>4. open => transfer.kind = "Committed"
    <3>1. reply # TimedOut /\ reply.is = "Ok"
      BY <1>7, ReplyForms, <1>5 DEF Succeeded
    <3> QED BY <1>1, <1>2, <1>5, <1>6, <3>1 DEF Local, CommittingInv
  <2>5. open => ConfirmedBy(g, revision)
    BY <1>1, <1>2, <1>3, <1>5, <1>6, <2>3, <2>4 DEF Local, CommittingInv, ConfirmedBy
  <2> QED BY <1>1, <1>2, <2>2, <2>3, <2>5, ConfirmHolds
<1>8. CASE ~Succeeded(g)
  <2>1. reply.is = "Error" /\ reply.effect \in Effects
    BY <1>1, <1>5, <1>8, ReplyForms DEF Succeeded
  <2>2. PICK m \in Requests :
          m = Request("Status", g, n) /\ m.op = "Status" /\ m.grant = g /\ m.sequence = n
    BY Made DEF Requests
  <2>3. PICK entry \in Entries :
          /\ entry = [client[g] EXCEPT !.error = client[g].reply.effect]
          /\ entry.stage = client[g].stage /\ entry.sequence = n /\ entry.blocked = client[g].blocked
          /\ entry.draft = d /\ entry.revision = client[g].revision /\ entry.seen = client[g].seen
          /\ entry.error = reply.effect
    <3>1. [client[g] EXCEPT !.error = client[g].reply.effect] \in Entries
      BY <1>5, <2>1 DEF Entries
    <3> QED BY <1>3, <1>4, <1>5, <3>1 DEF Entries
  <2>4. Sends(g, entry, m) /\ ClientTypes /\ saves' = saves
    BY <1>3, <1>8, <2>2, <2>3 DEF CommitAnswered, IInv, Types
  <2>5. Sent(g, entry, m)
    BY <2>4, SendsGives
  <2>6. /\ grant' = grant /\ open' = open /\ net' = net \cup {m}
        /\ client'[g].sequence = n /\ client'[g].seen = client[g].seen /\ client'[g].draft = d
        /\ client'[g].awaits = m /\ client'[g].revision = client[g].revision
        /\ client'[g].error = reply.effect /\ client'[g].reply = NoReply
        /\ client'[g].reply.is = "None"
    BY <1>1, <2>3, <2>5 DEF host, Sent
  <2>7. SaveRequest(g)'
    BY <2>2, <2>6 DEF SaveRequest
  <2>8. UploadingInv(g)' /\ ReleasingInv(g)'
    BY <2>2, <2>6 DEF UploadingInv, ReleasingInv
  <2>9. UploadInv(g)'
    BY <1>1, <2>2, <2>4, <2>6, AskedUpload
  <2>10. CommittingInv(g)'
    <3>1. Only(g, {Request("Commit", g, n)}, n - 1)
            => Only(g, Pending(g) \cup {Request("Commit", g, n)}, n - 1)'
      BY <2>6 DEF Only, Pending
    <3>2. NoCommit(g) => NoCommit(g)'
      BY <2>2, <2>6 DEF NoCommit
    <3>3. Agreed(g) => Agreed(g)'
      BY <2>6 DEF Agreed
    <3>4. Holds(g, n) => Holds(g, n)'
      BY <1>4, <2>6 DEF Holds
    <3>5. (reply = TimedOut) => reply.effect = "unknown"
      BY <1>5, ReplyForms
    <3>6. SUFFICES ASSUME open
                   PROVE  CommittingInv(g)'
      BY <2>6 DEF CommittingInv
    <3>7. transfer.kind = "Upload" =>
            /\ Agreed(g) /\ Holds(g, n) /\ Len(transfer.chunks) = Chunks
            /\ ~saves[d].reached /\ saves[d].base = client[g].seen /\ reply = TimedOut
      BY <1>1, <1>2, <1>3, <1>4, <1>5, <3>6 DEF Local, CommittingInv
    <3>8. transfer.kind = "Committed" =>
            /\ transfer.revision = client[g].revision + 1
            /\ grant[g].revision = client[g].revision + 1
            /\ grant[g].baseline = d
            /\ saves[d].confirmed = transfer.revision
            /\ reply = TimedOut
      BY <1>1, <1>2, <1>3, <1>4, <1>5, <2>1, <3>6 DEF Local, CommittingInv
    <3>9. transfer.kind = "Failed" =>
            /\ (transfer.effect = "none") => ~saves[d].reached
            /\ reply.effect \in {"unknown", transfer.effect}
      BY <1>1, <1>2, <1>3, <1>4, <1>5, <3>6 DEF Local, CommittingInv
    <3>10. (transfer.kind = "Failed" /\ transfer.effect = "none") \/ reply.effect = "unknown"
      BY <1>5, <1>6, <2>1, <3>5, <3>6, <3>7, <3>8, <3>9 DEF Effects
    <3> HIDE DEF reply
    <3> QED BY <1>6, <2>2, <2>4, <2>6, <3>1, <3>2, <3>3, <3>4, <3>6, <3>7, <3>8, <3>9, <3>10
            DEF CommittingInv
  <2> QED BY <1>1, <1>2, <1>3, <1>4, <2>2, <2>3, <2>4, <2>7, <2>8, <2>9, <2>10,
             SaveGoesOn DEF SaveOps
<1> QED BY <1>7, <1>8

LEMMA StatusAnsweredHolds ==
  ASSUME IInv, NEW g \in Tickets, StatusAnswered(g)
  PROVE  IInv'
<1> DEFINE reply == client[g].reply
           transfer == grant[g].transfer
<1>1. /\ client[g].awaits.op = "Status" /\ client[g].reply # NoReply
      /\ UNCHANGED <<host, disposed, chooser>>
  BY DEF StatusAnswered, Awaits
<1>2. Saving(g)
  BY <1>1, StageOf
<1>3. PICK n \in Nat : n = client[g].sequence
  BY <1>2, SavingForms
<1>4. /\ client[g] \in Entries /\ Local(g) /\ reply \in Replies
  BY <1>2, SavingForms DEF Entries
<1>5. (open /\ reply.is = "Ok") =>
              /\ n > 0 /\ grant[g].held
              /\ transfer.kind \in {"Upload", "Committed", "Failed"}
              /\ transfer.sequence = n /\ grant[g].retired = n
              /\ Only(g, {Request("Commit", g, n)}, n - 1)
              /\ transfer.kind # "Upload" => NoCommit(g)
  BY <1>1, <1>2, <1>3, <1>4 DEF Local, CommittingInv, Pending, Unrefused
<1>6. CASE Erred(g) /\ SaveFails(g, reply.effect)
  <2>1. open => reply.effect # "none"
    BY <1>1, <1>2, <1>4, <1>6, ReplyForms DEF Local, CommittingInv, Erred
  <2> QED BY <1>1, <1>2, <1>6, <2>1, SaveFailsHolds
<1>7. CASE Succeeded(g) /\ reply.state = "committed" /\ Confirm(g, reply.revision)
  <2>1. reply \in Statuses
    BY <1>1, <1>4, <1>7 DEF Local, ReplyInv, Succeeded
  <2>2. PICK revision \in Nat : revision = reply.revision
    BY <1>7, <2>1 DEF Statuses
  <2>3. saves[client[g].draft].confirmed = revision
    BY <1>1, <1>2, <1>4, <1>7, <2>2 DEF Local, ConfirmedInv, Succeeded
  <2>4. open => transfer.kind = "Committed"
    BY <1>1, <1>2, <1>4, <1>7 DEF Local, CommittingInv, Succeeded, Unrefused
  <2>5. open => ConfirmedBy(g, revision)
    BY <1>1, <1>2, <1>3, <1>4, <1>5, <1>7, <2>3, <2>4 DEF Local, CommittingInv, ConfirmedBy,
       Succeeded, Unrefused
  <2> QED BY <1>1, <1>2, <1>7, <2>2, <2>3, <2>5, ConfirmHolds
<1>8. CASE Succeeded(g) /\ reply.state = "failed" /\ SaveFails(g, reply.effect)
  <2>1. open => /\ transfer.kind = "Failed" /\ reply.effect = transfer.effect
                /\ transfer.effect = "none" => ~saves[client[g].draft].reached
    BY <1>1, <1>2, <1>4, <1>8 DEF Local, CommittingInv, Succeeded, Unrefused
  <2>2. open => ~Committable(g)
    BY <2>1 DEF Committable, IsActive
  <2> QED BY <1>1, <1>2, <1>8, <2>1, <2>2, SaveFailsHolds
<1>9. CASE Succeeded(g) /\ reply.state = "other" /\ SaveFails(g, client[g].error)
  <2>1. open => client[g].error = "unknown"
    BY <1>1, <1>2, <1>4, <1>9 DEF Local, CommittingInv, Succeeded, Unrefused
  <2> QED BY <1>1, <1>2, <1>9, <2>1, SaveFailsHolds
<1> QED BY <1>1, <1>6, <1>7, <1>8, <1>9 DEF StatusAnswered

-----------------------------------------------------------------------------
(* A save begins, and the page is disposed of.                             *)

LEMMA BlockedSaveHolds ==
  ASSUME IInv, NEW d \in Drafts, saves[d].result = "Unsaved",
         saves' = [saves EXCEPT ![d].result = "Unknown"],
         UNCHANGED <<host, net, disposed, chooser, client>>
  PROVE  IInv'
<1>1. /\ saves \in [Drafts -> Records]
      /\ \A f \in Tickets : ~Owns(f, d)
  BY DEF IInv, Types, ClientTypes, DraftInv
<1>2. /\ saves' \in [Drafts -> Records]
      /\ saves'[d].result = "Unknown"
      /\ \A e \in Drafts \ {d} : saves'[e] = saves[e]
  BY <1>1 DEF Records, Results
<1>3. /\ grant' = grant /\ open' = open /\ net' = net /\ service' = service
      /\ client' = client /\ chooser' = chooser /\ disposed' = disposed
  BY DEF host
<1>4. ASSUME NEW f \in Tickets
      PROVE  TicketInv(f)' /\ Local(f)'
  <2>1. Keeps(f)
    BY <1>1, <1>2, <1>3 DEF Keeps
  <2>2. TicketInv(f)'
    BY <1>3 DEF IInv, TicketInv, Fresh, Unused, ForGrant
  <2> QED BY <2>1, <2>2, LocalKept DEF IInv
<1>5. ASSUME NEW e \in Drafts
      PROVE  DraftInv(e)'
  <2>1. \A f \in Tickets : Owns(f, e)' => Owns(f, e)
    BY <1>3 DEF Owns, ForGrant
  <2>2. CASE e = d
    <3>1. \A f \in Tickets : ~Owns(f, e)' /\ client'[f].draft # e
      BY <1>1, <1>3, <2>1, <2>2 DEF Owns
    <3> QED BY <1>2, <2>2, <3>1 DEF DraftInv
  <2>3. CASE e # d
    BY <1>2, <1>3, <2>1, <2>3, DraftKept DEF IInv
  <2> QED BY <2>2, <2>3
<1>6. Types'
  BY <1>2, <1>3 DEF IInv, Types, HostTypes, ClientTypes
<1>7. PickerInv'
  BY <1>3 DEF IInv, PickerInv, Waiting
<1> QED BY <1>4, <1>5, <1>6, <1>7 DEF IInv

LEMMA CallSaveHolds ==
  ASSUME IInv, NEW g \in Tickets, NEW d \in Drafts, CallSave(g, d)
  PROVE  IInv'
<1>1. /\ client[g].stage = "Ready" /\ client[g].awaits = NoRequest
      /\ saves[d].result = "Unsaved" /\ UNCHANGED <<host, disposed, chooser>>
  BY DEF CallSave
<1>2. CASE client[g].blocked
  BY <1>1, <1>2, BlockedSaveHolds DEF CallSave
<1>3. CASE ~client[g].blocked
  <2>1. /\ client[g] \in Entries /\ Local(g) /\ Active(g) /\ client[g].sequence \in Nat
        /\ client[g].seen \in Inventory /\ saves \in [Drafts -> Records]
        /\ (~open) => ~grant[g].held
    BY <1>1, OfTheEntry DEF Active, Entries
  <2>2. PICK n \in Nat : n = client[g].sequence + 1 /\ n > 0 /\ n - 1 = client[g].sequence
                         /\ client[g].sequence <= n
    BY <2>1
  <2>3. PICK m \in Requests :
          m = Request("CheckSession", g, n) /\ m.op = "CheckSession" /\ m.grant = g /\ m.sequence = n
    BY Made DEF Requests
  <2>4. PICK entry \in Entries :
          /\ entry = [client[g] EXCEPT !.sequence = n, !.draft = d]
          /\ entry.stage = "Ready" /\ entry.sequence = n /\ ~entry.blocked
          /\ entry.draft = d /\ entry.revision = client[g].revision /\ entry.seen = client[g].seen
    <3>1. [client[g] EXCEPT !.sequence = n, !.draft = d] \in Entries
      BY <2>1 DEF Entries
    <3> QED BY <1>1, <1>3, <2>1, <3>1 DEF Entries
  <2>5. /\ Sends(g, entry, m) /\ ClientTypes
        /\ saves' = [saves EXCEPT ![d].result = "Saving", ![d].base = client[g].seen]
    BY <1>3, <2>2, <2>3, <2>4 DEF CallSave, IInv, Types
  <2>6. Sent(g, entry, m)
    BY <2>5, SendsGives
  <2>7. /\ saves' \in [Drafts -> Records]
        /\ saves'[d].result = "Saving" /\ saves'[d].base = client[g].seen
        /\ saves'[d].reached = saves[d].reached
        /\ \A e \in Drafts \ {d} : saves'[e] = saves[e]
    BY ZenonT(30), <2>1, <2>5 DEF Records, Results
  <2>8. ClientActs(g)
    BY <1>1, <2>3, <2>5, <2>7, SendsActs DEF ChooserMoves
  <2>9. /\ grant' = grant /\ open' = open /\ net' = net \cup {m} /\ service' = service
        /\ client'[g].stage = "Ready" /\ client'[g].sequence = n /\ client'[g].draft = d
        /\ client'[g].seen = client[g].seen /\ client'[g].revision = client[g].revision
        /\ client'[g].awaits = m /\ client'[g].reply = NoReply /\ client'[g].reply.is = "None"
        /\ \A f \in Tickets \ {g} : client'[f] = client[f]
    BY <1>1, <2>4, <2>6 DEF host, Sent
  <2>10. /\ \A f \in Tickets : ~Owns(f, d)
         /\ ~saves[d].reached
    BY <1>1 DEF IInv, DraftInv
  <2>11. StepOf(g) /\ SameChooser /\ Follows(g)
    BY <1>1, <2>7, <2>8, <2>9, <2>10 DEF StepOf, ClientActs, host, SameChooser, Follows
  <2>12. PickerInv' /\ \A f \in Tickets : TicketInv(f)'
    BY <2>1, <2>8, <2>11, MovesTickets
  <2>13. open => /\ Settled(g, n - 1) /\ Only(g, {}, n - 1)
                 /\ \A o \in net : ForGrant(o, g) => o.op = "Release"
    BY <1>1, <1>3, <2>1, <2>2 DEF Local, RestInv, Only
  <2>14. Local(g)'
    <3>1. Saving(g)'
      BY <2>3, <2>9 DEF Saving, SaveOps
    <3>2. AwaitsInv(g)'
      BY <2>3, <2>9, <3>1 DEF AwaitsInv, SaveRequest
    <3>3. /\ ReplyInv(g)' /\ ConfirmedInv(g)' /\ CommittingInv(g)'
          /\ ReleasingInv(g)' /\ OpeningInv(g)'
      BY <2>3, <2>9 DEF ReplyInv, ConfirmedInv, CommittingInv, ReleasingInv, OpeningInv
    <3>4. RestInv(g)'
      BY <2>3, <2>9, RequestForms DEF RestInv
    <3>5. SequenceInv(g)'
      BY <1>1, <2>1, <2>2, <2>3, <2>9, AskedSequence
    <3>6. UploadInv(g)'
      <4>1. grant[g].held => grant[g].transfer.kind \in {"Idle", "Committed"}
        BY <2>1, <2>13 DEF Settled
      <4>2. grant[g].held => \A o \in net' : ForGrant(o, g) => o.op \in {"Release", "CheckSession"}
        BY <2>1, <2>3, <2>9, <2>13
      <4> QED BY <2>9, <4>1, <4>2 DEF UploadInv, IsActive
    <3>7. UploadingInv(g)'
      <4>1. SUFFICES ASSUME open
                     PROVE  /\ NoCommit(g)' /\ Agreed(g)' /\ Settled(g, n - 1)'
                            /\ Only(g, Pending(g), n - 1)'
        BY <2>2, <2>3, <2>7, <2>9, <2>10 DEF UploadingInv
      <4>2. NoCommit(g)'
        BY <2>3, <2>9, <2>13, <4>1 DEF NoCommit
      <4>3. Settled(g, n - 1)' /\ Agreed(g)'
        BY <2>9, <2>13, <4>1 DEF Settled, Agreed
      <4>4. Only(g, Pending(g), n - 1)'
        BY <2>9, <2>13, <4>1 DEF Only, Pending
      <4> QED BY <4>2, <4>3, <4>4
    <3> QED BY <3>2, <3>3, <3>4, <3>5, <3>6, <3>7 DEF Local
  <2>15. \A f \in Tickets : Local(f)'
    BY <2>11, <2>14, OthersLocal
  <2>16. ASSUME NEW e \in Drafts
         PROVE  DraftInv(e)'
    <3>1. ASSUME NEW f \in Tickets, Owns(f, e)'
          PROVE  Owns(f, e) \/ (f = g /\ e = d)
      BY <2>3, <2>9, <3>1 DEF Owns, ForGrant
    <3>2. client[g].draft = NoContent /\ NoContent # e
      BY <1>1, <2>1, ContentsAssumption DEF Local, AwaitsInv, Saving, NoRequest, SaveOps
    <3>3. CASE e = d
      <4>1. \A f \in Tickets : Owns(f, d)' => f = g
        BY <2>10, <3>1, <3>3
      <4>2. \A f \in Tickets : (client'[f].draft = d) => Owns(f, d)'
        BY DEF Owns
      <4> QED BY <2>7, <2>9, <2>10, <3>3, <4>1, <4>2 DEF DraftInv
    <3>4. CASE e # d
      <4>1. \A f \in Tickets : client'[f].draft = e <=> client[f].draft = e
        BY <2>9, <3>2, <3>4
      <4> QED BY <2>7, <2>9, <3>1, <3>4, <4>1, DraftKept DEF IInv
    <3> QED BY <3>3, <3>4
  <2>17. Types'
    BY <2>8, <2>9 DEF ClientActs, host, IInv, Types, HostTypes
  <2> QED BY <2>12, <2>15, <2>16, <2>17 DEF IInv
<1> QED BY <1>2, <1>3

LEMMA DisposeHolds ==
  ASSUME IInv, Dispose
  PROVE  IInv'
<1>1. /\ disposed' = TRUE /\ net' = net \cup {CloseRequest}
      /\ client' = [g \in Tickets |-> Gone]
      /\ UNCHANGED host
      /\ chooser' = [chooser EXCEPT !.at = "Ready", !.reply = NoReply]
  BY ZenonT(30) DEF Dispose
<1>2. /\ grant' = grant /\ open' = open /\ service' = service
      /\ \A g \in Tickets : client'[g] = Gone
  BY <1>1 DEF host
<1>3. /\ Gone \in Entries /\ Gone.stage = "Gone" /\ Gone.awaits = NoRequest /\ Gone.reply = NoReply
      /\ Gone.reply.is = "None" /\ Gone.draft = NoContent
  BY DEF Gone, NoEntry, Entries, Stages, NoReply, Replies, Effects, Inventory
<1>4. \A g \in Tickets : \A m \in net' : ForGrant(m, g) => m \in net
  BY <1>1, OtherForms DEF ForGrant
<1>5. saves \in [Drafts -> Records]
  BY DEF IInv, Types, ClientTypes
<1>6. ASSUME NEW d \in Drafts
      PROVE  /\ saves'[d] \in Records
             /\ saves'[d].base = saves[d].base /\ saves'[d].reached = saves[d].reached
             /\ saves'[d].confirmed = saves[d].confirmed
             /\ \/ saves[d].result # "Saving" /\ saves'[d] = saves[d]
                \/ saves'[d].result = "Unknown"
                \/ /\ saves'[d].result = "Saved" /\ saves'[d].revision = saves[d].confirmed
                   /\ \A g \in Tickets : ~(Owns(g, d) /\ Committable(g))
  <2>1. CASE saves[d].result # "Saving"
    BY ZenonT(30), <1>5, <2>1 DEF Dispose
  <2>2. CASE saves[d].result = "Saving"
    <3> DEFINE h == CHOOSE g \in Tickets : client[g].draft = d
    <3>1. \E g \in Tickets : client[g].draft = d
      BY <2>2 DEF IInv, DraftInv
    <3>2. h \in Tickets /\ client[h].draft = d
      BY <3>1
    <3>3. saves'[d] = IF client[h].awaits.op = "Release"
                      THEN [saves[d] EXCEPT !.result = "Saved", !.revision = client[h].revision]
                      ELSE [saves[d] EXCEPT !.result = "Unknown"]
      BY ZenonT(30), <2>2 DEF Dispose
    <3> HIDE DEF h
    <3>4. CASE client[h].awaits.op = "Release"
      <4>1. /\ Local(h) /\ client[h].revision \in Nat /\ (~open => ~grant[h].held)
        BY <3>2, OfTheEntry
      <4>2. Saving(h)
        BY <3>2, <4>1, ContentsAssumption DEF Local, AwaitsInv
      <4>3. saves[d].confirmed = client[h].revision
        BY <3>2, <3>4, <4>1, <4>2 DEF Local, ConfirmedInv
      <4>4. ~Committable(h)
        BY <3>4, <4>1, <4>2 DEF Local, ReleasingInv, Settled, Committable, IsActive
      <4>5. \A g \in Tickets : Owns(g, d) => g = h
        BY <3>2 DEF Owns, IInv, DraftInv
      <4>6. saves'[d] = [saves[d] EXCEPT !.result = "Saved", !.revision = client[h].revision]
        BY <3>3, <3>4
      <4>7. saves[d] \in Records
        BY <1>5
      <4>8. /\ saves'[d] \in Records /\ saves'[d].result = "Saved"
            /\ saves'[d].revision = client[h].revision
            /\ saves'[d].base = saves[d].base /\ saves'[d].reached = saves[d].reached
            /\ saves'[d].confirmed = saves[d].confirmed
        BY <4>1, <4>6, <4>7 DEF Records, Results
      <4> QED BY <4>3, <4>4, <4>5, <4>8
    <3>5. CASE client[h].awaits.op # "Release"
      BY <1>5, <3>3, <3>5 DEF Records, Results
    <3> QED BY <3>4, <3>5
  <2> QED BY <2>1, <2>2
<1>7. Types'
  <2>1. saves' \in [Drafts -> Records]
    <3> DEFINE Ended(d) ==
                 IF saves[d].result # "Saving" THEN saves[d]
                 ELSE LET g == CHOOSE g \in Tickets : client[g].draft = d IN
                      IF client[g].awaits.op = "Release"
                      THEN [saves[d] EXCEPT !.result = "Saved", !.revision = client[g].revision]
                      ELSE [saves[d] EXCEPT !.result = "Unknown"]
    <3>1. saves' = [d \in Drafts |-> Ended(d)]
      BY ZenonT(30) DEF Dispose
    <3> HIDE DEF Ended
    <3> QED BY <1>6, <3>1
  <2>2. client' \in [Tickets -> Entries]
    BY <1>1, <1>3
  <2> QED BY <1>1, <1>2, <2>1, <2>2, ChooserForms DEF IInv, Types, HostTypes, ClientTypes
<1>8. PickerInv'
  <2>1. \A m \in net' : m.op = "ChooseWrite" => m \in net
    BY <1>1, OtherForms
  <2>2. chooser'.at = "Ready" /\ chooser'.attempt = chooser.attempt
    BY <1>1 DEF IInv, Types, ClientTypes
  <2> QED BY <1>1, <1>2, <2>1, <2>2 DEF IInv, PickerInv, Waiting
<1>9. ASSUME NEW g \in Tickets
      PROVE  TicketInv(g)' /\ Local(g)'
  <2>1. TicketInv(g)'
    BY <1>1, <1>2, <1>3, <1>4 DEF IInv, TicketInv, Unused
  <2>2. ~Saving(g)'
    BY <1>2, <1>3 DEF Saving
  <2>3. AwaitsInv(g)' /\ ReplyInv(g)' /\ ConfirmedInv(g)' /\ OpeningInv(g)' /\ RestInv(g)'
        /\ UploadingInv(g)' /\ CommittingInv(g)' /\ ReleasingInv(g)'
    BY <1>2, <1>3, <2>2 DEF AwaitsInv, ReplyInv, ConfirmedInv, OpeningInv, RestInv, UploadingInv,
       CommittingInv, ReleasingInv
  <2>4. Local(g)
    BY DEF IInv
  <2>5. SequenceInv(g)'
    BY <1>2, <1>3, <2>4 DEF Local, SequenceInv
  <2>6. UploadInv(g)'
    <3>1. SUFFICES ASSUME grant[g].held
                   PROVE  UploadInv(g)'
      BY <1>2 DEF UploadInv
    <3>2. \A e \in Drafts : saves'[e].base = saves[e].base
      BY <1>6
    <3>3. ASSUME NEW m \in net, ForGrant(m, g), m.op = "Commit",
                 IsActive(grant[g].transfer, "Upload", m.sequence)
          PROVE  saves'[grant[g].transfer.chunks[1]].result \in {"Saving", "Unknown"}
      <4> DEFINE d == grant[g].transfer.chunks[1]
      <4>1. Committable(g)
        BY <3>1, <3>3 DEF Committable
      <4>2. d \in Drafts /\ Owns(g, d)
        BY <3>1, <3>3, UploadDrafts DEF IsActive, Owns
      <4>3. saves[d].result \in {"Saving", "Unknown"}
        BY <2>4, <3>1, <3>3 DEF Local, UploadInv
      <4> HIDE DEF d
      <4> QED BY <1>6, <4>1, <4>2, <4>3 DEF d
    <3> QED BY <1>2, <1>4, <2>4, <3>1, <3>2, <3>3, UploadDrafts DEF Local, UploadInv
  <2> QED BY <2>1, <2>3, <2>5, <2>6 DEF Local
<1>10. ASSUME NEW d \in Drafts
       PROVE  DraftInv(d)'
  <2>1. \A g \in Tickets : client'[g].draft # d
    BY <1>2, <1>3, ContentsAssumption
  <2>2. ASSUME NEW g \in Tickets, Owns(g, d)'
        PROVE  Owns(g, d)
    BY <1>2, <1>4, <2>1, <2>2 DEF Owns
  <2> QED BY <1>2, <1>6, <2>1, <2>2 DEF IInv, DraftInv
<1> QED BY <1>7, <1>8, <1>9, <1>10 DEF IInv

-----------------------------------------------------------------------------
(* The edit of the folder goes on.                                         *)

LEMMA Inventoried ==
  /\ NothingAside \in Inventories
  /\ \A s \in Inventories, f \in Files : s[f] \in Versions
  /\ \A s \in Inventories, f \in Files, v \in Versions :
       /\ [s EXCEPT ![f] = v] \in Inventories
       /\ [s EXCEPT ![f] = v][f] = v
       /\ \A h \in Files \ {f} : [s EXCEPT ![f] = v][h] = s[h]
BY VersionsAssumption DEF Inventories, NothingAside

LEMMA EditForms == NoEdit \notin Edits
BY DEF NoEdit, Edits, EditStages

LEMMA OnlyWhileEditing ==
  ASSUME EditStep
  PROVE  Editing
<1> SUFFICES ASSUME edit = NoEdit
             PROVE  FALSE
  BY DEF Editing
<1>0. edit.stage = "None"
  BY DEF NoEdit
<1>1. ~NextStage /\ ~GiveUp
  BY <1>0 DEF NextStage, StageAfter, GiveUp
<1>2. ASSUME NEW f \in Files
      PROVE  /\ ~Compare(f) /\ ~Verify(f) /\ ~SetAside(f) /\ ~Install(f) /\ ~Clean(f)
             /\ ~ReadBack(f) /\ ~CheckInstalled(f) /\ ~Restore(f) /\ ~NotUndone(f)
  BY <1>0 DEF Compare, Verify, SetAside, MovesAside, Install, Clean, ReadBack, CheckInstalled,
         Restore, NotUndone, Turn
<1>3. ASSUME NEW f \in Files
      PROVE  ~Unlink(f)
  BY DEF Unlink, Editing
<1> QED BY <1>1, <1>2, <1>3 DEF EditStep

(* The files and the edit that a step ends in, which is of the same commit.*)
FilesTo(f, version, kept) ==
  /\ disk'[f] = version /\ aside'[f] = kept
  /\ \A h \in Files \ {f} : disk'[h] = disk[h] /\ aside'[h] = aside[h]

Continues ==
  /\ edit' \in Edits
  /\ edit'.request = edit.request /\ edit'.old = edit.old /\ edit'.new = edit.new
  /\ disk' \in Inventories /\ aside' \in Inventories /\ recovery' = recovery

To(stage, left, changed, checked) ==
  /\ Continues
  /\ edit'.stage = stage /\ edit'.left = left /\ edit'.changed = changed
  /\ edit'.checked = checked

Typed ==
  /\ edit \in Edits /\ disk \in Inventories /\ aside \in Inventories
  /\ Absent \in Versions
  /\ \A f \in Files : disk[f] \in Versions /\ aside[f] \in Versions /\ edit.new[f] \in Versions

LEMMA StageMoves ==
  ASSUME Typed, NextStage
  PROVE  /\ To(StageAfter[edit.stage],
               CASE edit.stage \in {"Compare", "Verify"} -> Touched
                 [] edit.stage \in {"Swap", "Undo"} -> Aside
                 [] edit.stage = "Clean" -> Files,
               edit.changed, edit.checked)
         /\ edit'.failed = edit.failed /\ disk' = disk /\ aside' = aside
         /\ edit.left = {} /\ edit.checked = {}
<1> DEFINE stage == StageAfter[edit.stage]
           left == CASE edit.stage \in {"Compare", "Verify"} -> Touched
                     [] edit.stage \in {"Swap", "Undo"} -> Aside
                     [] edit.stage = "Clean" -> Files
<1>1. stage \in EditStages /\ left \in SUBSET Files
  BY DEF NextStage, StageAfter, EditStages, Touched, Aside
<1>2. edit' = [edit EXCEPT !.stage = stage, !.left = left] /\ edit \in Edits
      /\ UNCHANGED <<disk, aside, recovery>>
  BY DEF NextStage, Typed
<1> HIDE DEF stage, left
<1>3. To(stage, left, edit.changed, edit.checked) /\ edit'.failed = edit.failed
  BY <1>1, <1>2 DEF To, Continues, Edits, Typed
<1> QED BY <1>2, <1>3 DEF stage, left, NextStage

LEMMA RollsBack ==
  ASSUME Typed, NEW changed \in SUBSET Files, edit' = RolledBack(changed),
         disk' \in Inventories, aside' \in Inventories, recovery' = recovery
  PROVE  /\ To("Undo", {f \in edit.changed \ edit.left : edit.new[f] # Absent}, changed, edit.checked)
         /\ edit'.failed = edit.failed
<1> DEFINE left == {f \in edit.changed \ edit.left : edit.new[f] # Absent}
<1>1. left \in SUBSET Files /\ edit \in Edits
  BY DEF Edits, Typed
<1>2. edit' = [edit EXCEPT !.stage = "Undo", !.changed = changed, !.left = left]
  BY DEF RolledBack
<1> HIDE DEF left
<1>3. To("Undo", left, changed, edit.checked) /\ edit'.failed = edit.failed
  BY <1>1, <1>2 DEF To, Continues, Edits, EditStages
<1> QED BY <1>3 DEF left

LEMMA FileMoves ==
  ASSUME Typed, NEW f \in Files
  PROVE  /\ Compare(f) \/ Verify(f) \/ ReadBack(f) =>
              /\ To(edit.stage, edit.left \ {f}, edit.changed, edit.checked)
              /\ edit'.failed = edit.failed /\ disk' = disk /\ aside' = aside
         /\ SetAside(f) /\ disk[f] = edit.old[f] =>
              /\ To(edit.stage, IF edit.new[f] = Absent THEN edit.left \ {f} ELSE edit.left,
                    edit.changed \cup {f}, edit.checked)
              /\ edit'.failed = edit.failed /\ FilesTo(f, Absent, disk[f])
         /\ SetAside(f) /\ disk[f] # edit.old[f] =>
              /\ To("Undo", {h \in edit.changed \ edit.left : edit.new[h] # Absent},
                    edit.changed \cup {f}, edit.checked)
              /\ edit'.failed = edit.failed /\ FilesTo(f, Absent, disk[f])
         /\ Install(f) =>
              /\ To(edit.stage, edit.left \ {f}, edit.changed \cup {f}, edit.checked)
              /\ edit'.failed = edit.failed /\ FilesTo(f, edit.new[f], aside[f])
         /\ Clean(f) =>
              /\ To(edit.stage, edit.left \ {f}, edit.changed, edit.checked)
              /\ edit'.failed = edit.failed /\ FilesTo(f, disk[f], Absent)
         /\ CheckInstalled(f) =>
              /\ To(edit.stage, edit.left \ {f}, edit.changed, {f})
              /\ edit'.failed = edit.failed /\ disk' = disk /\ aside' = aside
         /\ NotUndone(f) =>
              /\ To(edit.stage, edit.left \ {f}, edit.changed, {})
              /\ edit'.failed /\ disk' = disk /\ aside' = aside
         /\ Unlink(f) =>
              /\ To(edit.stage, edit.left,
                    IF f \in Aside THEN edit.changed ELSE edit.changed \ {f}, {})
              /\ edit.failed => edit'.failed
              /\ FilesTo(f, Absent, aside[f])
         /\ Restore(f) =>
              /\ To(edit.stage, edit.left \ {f}, edit.changed \ {f}, edit.checked)
              /\ edit.failed => edit'.failed
              /\ FilesTo(f, aside[f], Absent)
<1>1. /\ edit \in Edits /\ disk \in Inventories /\ aside \in Inventories
      /\ Absent \in Versions /\ disk[f] \in Versions /\ aside[f] \in Versions
      /\ edit.new[f] \in Versions
  BY DEF Typed
<1>2. ASSUME Compare(f) \/ Verify(f) \/ ReadBack(f)
      PROVE  /\ To(edit.stage, edit.left \ {f}, edit.changed, edit.checked)
             /\ edit'.failed = edit.failed /\ disk' = disk /\ aside' = aside
  BY <1>1, <1>2 DEF Compare, Verify, ReadBack, Passed, Edits, To, Continues
<1>3. ASSUME SetAside(f)
      PROVE  /\ FilesTo(f, Absent, disk[f]) /\ recovery' = recovery
             /\ disk' \in Inventories /\ aside' \in Inventories
  BY <1>1, <1>3 DEF SetAside, MovesAside, FilesTo, Inventories
<1>4. ASSUME SetAside(f), disk[f] = edit.old[f]
      PROVE  /\ To(edit.stage, IF edit.new[f] = Absent THEN edit.left \ {f} ELSE edit.left,
                   edit.changed \cup {f}, edit.checked)
             /\ edit'.failed = edit.failed
  <2> DEFINE left == IF edit.new[f] = Absent THEN edit.left \ {f} ELSE edit.left
  <2>1. edit' = [edit EXCEPT !.changed = edit.changed \cup {f}, !.left = left]
    BY <1>1, <1>4 DEF SetAside, GoesOn
  <2>2. left \in SUBSET Files /\ edit.changed \cup {f} \in SUBSET Files
    BY <1>1 DEF Edits
  <2> HIDE DEF left
  <2>3. To(edit.stage, left, edit.changed \cup {f}, edit.checked) /\ edit'.failed = edit.failed
    BY <1>1, <1>3, <1>4, <2>1, <2>2 DEF To, Continues, Edits
  <2> QED BY <2>3 DEF left
<1>5. ASSUME SetAside(f), disk[f] # edit.old[f]
      PROVE  /\ To("Undo", {h \in edit.changed \ edit.left : edit.new[h] # Absent},
                   edit.changed \cup {f}, edit.checked)
             /\ edit'.failed = edit.failed
  <2>1. edit' = RolledBack(edit.changed \cup {f}) /\ edit.changed \cup {f} \in SUBSET Files
    BY <1>1, <1>5 DEF SetAside, Edits
  <2> QED BY <1>3, <1>5, <2>1, RollsBack
<1>6. ASSUME Install(f)
      PROVE  /\ To(edit.stage, edit.left \ {f}, edit.changed \cup {f}, edit.checked)
             /\ edit'.failed = edit.failed /\ FilesTo(f, edit.new[f], aside[f])
  <2>1. FilesTo(f, edit.new[f], aside[f]) /\ disk' \in Inventories /\ aside' = aside
    BY <1>1, <1>6 DEF Install, FilesTo, Inventories
  <2> QED BY <1>1, <1>6, <2>1 DEF Install, Edits, To, Continues
<1>7. ASSUME Clean(f)
      PROVE  /\ To(edit.stage, edit.left \ {f}, edit.changed, edit.checked)
             /\ edit'.failed = edit.failed /\ FilesTo(f, disk[f], Absent)
  <2>1. FilesTo(f, disk[f], Absent) /\ aside' \in Inventories /\ disk' = disk
    BY <1>1, <1>7 DEF Clean, FilesTo, Inventories
  <2> QED BY <1>1, <1>7, <2>1 DEF Clean, Passed, Edits, To, Continues
<1>8. ASSUME CheckInstalled(f)
      PROVE  /\ To(edit.stage, edit.left \ {f}, edit.changed, {f})
             /\ edit'.failed = edit.failed /\ disk' = disk /\ aside' = aside
  BY <1>1, <1>8 DEF CheckInstalled, Edits, To, Continues
<1>9. ASSUME NotUndone(f)
      PROVE  /\ To(edit.stage, edit.left \ {f}, edit.changed, {})
             /\ edit'.failed /\ disk' = disk /\ aside' = aside
  BY <1>1, <1>9 DEF NotUndone, Edits, To, Continues
<1>10. ASSUME Unlink(f)
       PROVE  /\ To(edit.stage, edit.left,
                    IF f \in Aside THEN edit.changed ELSE edit.changed \ {f}, {})
              /\ edit.failed => edit'.failed
              /\ FilesTo(f, Absent, aside[f])
  <2> DEFINE changed == IF f \in Aside THEN edit.changed ELSE edit.changed \ {f}
  <2>1. FilesTo(f, Absent, aside[f]) /\ disk' \in Inventories /\ aside' = aside
        /\ recovery' = recovery
    BY <1>1, <1>10 DEF Unlink, FilesTo, Inventories
  <2>2. PICK failed \in {edit.failed, TRUE} :
          edit' = [edit EXCEPT !.checked = {}, !.failed = failed, !.changed = changed]
    BY <1>1, <1>10 DEF Unlink
  <2>3. changed \in SUBSET Files /\ failed \in BOOLEAN
    BY <1>1 DEF Edits
  <2> HIDE DEF changed
  <2>4. To(edit.stage, edit.left, changed, {}) /\ edit'.failed = failed
    BY <1>1, <2>1, <2>2, <2>3 DEF To, Continues, Edits
  <2> QED BY <2>1, <2>2, <2>4 DEF changed
<1>11. ASSUME Restore(f)
       PROVE  /\ To(edit.stage, edit.left \ {f}, edit.changed \ {f}, edit.checked)
              /\ edit.failed => edit'.failed
              /\ FilesTo(f, aside[f], Absent)
  <2>1. FilesTo(f, aside[f], Absent) /\ disk' \in Inventories /\ aside' \in Inventories
        /\ recovery' = recovery
    BY <1>1, <1>11 DEF Restore, FilesTo, Inventories
  <2>2. PICK failed \in {edit.failed, TRUE} :
          edit' = [edit EXCEPT !.left = edit.left \ {f}, !.changed = edit.changed \ {f},
                               !.failed = failed]
    BY <1>1, <1>11 DEF Restore
  <2>3. failed \in BOOLEAN
    BY <1>1 DEF Edits
  <2>4. To(edit.stage, edit.left \ {f}, edit.changed \ {f}, edit.checked) /\ edit'.failed = failed
    BY <1>1, <2>1, <2>2, <2>3 DEF To, Continues, Edits
  <2> QED BY <2>1, <2>2, <2>4
<1> QED BY <1>2, <1>3, <1>4, <1>5, <1>6, <1>7, <1>8, <1>9, <1>10, <1>11

LEMMA EditGoesOn ==
  ASSUME FolderTypes, EditInv, EditStep
  PROVE  Continues /\ FolderTypes' /\ EditInv'
<1>1. Editing /\ Typed
  BY OnlyWhileEditing, Inventoried, VersionsAssumption DEF FolderTypes, Typed, Edits
<1>2. ASSUME Continues, EditInv'
      PROVE  Continues /\ FolderTypes' /\ EditInv'
  BY <1>2 DEF Continues, FolderTypes
<1>3. ASSUME Continues
      PROVE  Editing' /\ recovery' = recovery
  BY <1>3, EditForms DEF Continues, Editing
<1>4. CASE NextStage
  <2>1. edit.stage \in {"Compare", "Verify", "Swap", "Clean", "Undo"}
    BY <1>4 DEF NextStage, StageAfter
  <2>2. Continues
    BY <1>1, <1>4, StageMoves DEF To
  <2>3. /\ edit'.changed = edit.changed /\ edit'.checked = {} /\ edit'.failed = edit.failed
        /\ disk' = disk /\ aside' = aside /\ edit.left = {} /\ edit.checked = {}
        /\ edit'.stage = StageAfter[edit.stage]
    BY <1>1, <1>4, StageMoves DEF To
  <2>4. edit.stage \in {"Swap", "Undo"} => edit'.left = Aside
    BY <1>1, <1>4, StageMoves DEF To
  <2>5. EditInv'
    BY <1>1, <1>3, <2>1, <2>2, <2>3, <2>4 DEF EditInv, StageAfter, Continues, Aside
  <2> QED BY <1>2, <2>2, <2>5
<1>5. CASE GiveUp
  <2>1. edit.changed \in SUBSET Files /\ edit' = RolledBack(edit.changed)
        /\ disk' = disk /\ aside' = aside /\ recovery' = recovery
        /\ edit.stage \in {"Verify", "Swap"}
    BY <1>1, <1>5 DEF GiveUp, Typed, Edits
  <2>2. /\ To("Undo", {f \in edit.changed \ edit.left : edit.new[f] # Absent}, edit.changed, edit.checked)
        /\ edit'.failed = edit.failed
    BY <1>1, <2>1, RollsBack DEF Typed
  <2>3. EditInv'
    BY <1>1, <1>3, <2>1, <2>2 DEF EditInv, To, Aside
  <2> QED BY <1>2, <2>2, <2>3 DEF To
<1>6. ASSUME NEW f \in Files, Compare(f) \/ Verify(f) \/ ReadBack(f)
      PROVE  Continues /\ EditInv'
  <2>1. /\ To(edit.stage, edit.left \ {f}, edit.changed, edit.checked)
        /\ edit'.failed = edit.failed /\ disk' = disk /\ aside' = aside
    BY <1>1, <1>6, FileMoves
  <2>2. edit.stage = "Compare" => ~recovery
    BY <1>6 DEF Compare, Verify, ReadBack, Turn
  <2>3. edit.stage \in {"Compare", "Verify", "ReadBack"}
    BY <1>6 DEF Compare, Verify, ReadBack, Turn
  <2>4. EditInv'
    BY <1>1, <1>3, <2>1, <2>2, <2>3 DEF EditInv, To, Aside
  <2> QED BY <2>1, <2>4 DEF To
<1>7. ASSUME NEW f \in Files, SetAside(f)
      PROVE  Continues /\ EditInv'
  <2>1. edit.stage = "Swap" /\ f \in edit.left /\ f \notin Aside /\ disk[f] # Absent
    BY <1>7 DEF SetAside, MovesAside, Turn, Unreplaced
  <2>2. CASE disk[f] = edit.old[f]
    <3>1. /\ To(edit.stage, IF edit.new[f] = Absent THEN edit.left \ {f} ELSE edit.left,
                edit.changed \cup {f}, edit.checked)
          /\ edit'.failed = edit.failed /\ FilesTo(f, Absent, disk[f])
      BY <1>1, <1>7, <2>2, FileMoves
    <3>2. EditInv'
      BY <1>1, <1>3, <2>1, <2>2, <3>1 DEF EditInv, To, Continues, FilesTo, Aside
    <3> QED BY <3>1, <3>2 DEF To
  <2>3. CASE disk[f] # edit.old[f]
    <3>1. /\ To("Undo", {h \in edit.changed \ edit.left : edit.new[h] # Absent},
                edit.changed \cup {f}, edit.checked)
          /\ edit'.failed = edit.failed /\ FilesTo(f, Absent, disk[f])
      BY <1>1, <1>7, <2>3, FileMoves
    <3>2. EditInv'
      BY <1>1, <1>3, <2>1, <2>3, <3>1 DEF EditInv, To, FilesTo, Aside
    <3> QED BY <3>1, <3>2 DEF To
  <2> QED BY <2>2, <2>3
<1>8. ASSUME NEW f \in Files, Install(f)
      PROVE  Continues /\ EditInv'
  <2>1. /\ To(edit.stage, edit.left \ {f}, edit.changed \cup {f}, edit.checked)
        /\ edit'.failed = edit.failed /\ FilesTo(f, edit.new[f], aside[f])
    BY <1>1, <1>8, FileMoves
  <2>2. edit.stage = "Swap" /\ edit.new[f] # Absent
    BY <1>8 DEF Install, Turn
  <2>3. EditInv'
    BY <1>1, <1>3, <2>1, <2>2 DEF EditInv, To, Continues, FilesTo, Aside
  <2> QED BY <2>1, <2>3 DEF To
<1>9. ASSUME NEW f \in Files, Clean(f)
      PROVE  Continues /\ EditInv'
  <2>1. /\ To(edit.stage, edit.left \ {f}, edit.changed, edit.checked)
        /\ edit'.failed = edit.failed /\ FilesTo(f, disk[f], Absent)
    BY <1>1, <1>9, FileMoves
  <2>2. edit.stage = "Clean"
    BY <1>9 DEF Clean, Turn
  <2>3. EditInv'
    BY <1>1, <1>3, <2>1, <2>2 DEF EditInv, To, Continues, FilesTo, Aside
  <2> QED BY <2>1, <2>3 DEF To
<1>10. ASSUME NEW f \in Files, CheckInstalled(f)
       PROVE  Continues /\ EditInv'
  <2>1. /\ To(edit.stage, edit.left \ {f}, edit.changed, {f})
        /\ edit'.failed = edit.failed /\ disk' = disk /\ aside' = aside
    BY <1>1, <1>10, FileMoves
  <2>2. edit.stage = "Undo" /\ edit.checked = {}
    BY <1>10 DEF CheckInstalled, Turn
  <2>3. EditInv'
    BY <1>1, <1>3, <2>1, <2>2 DEF EditInv, To, Aside
  <2> QED BY <2>1, <2>3 DEF To
<1>11. ASSUME NEW f \in Files, NotUndone(f)
       PROVE  Continues /\ EditInv'
  <2>1. /\ To(edit.stage, edit.left \ {f}, edit.changed, {})
        /\ edit'.failed /\ disk' = disk /\ aside' = aside
    BY <1>1, <1>11, FileMoves
  <2>2. edit.stage \in {"Undo", "Restore"}
    BY <1>11 DEF NotUndone
  <2>3. EditInv'
    BY <1>1, <1>3, <2>1, <2>2 DEF EditInv, To
  <2> QED BY <2>1, <2>3 DEF To
<1>12. ASSUME NEW f \in Files, Unlink(f)
       PROVE  Continues /\ EditInv'
  <2>1. /\ To(edit.stage, edit.left,
              IF f \in Aside THEN edit.changed ELSE edit.changed \ {f}, {})
        /\ edit.failed => edit'.failed
        /\ FilesTo(f, Absent, aside[f])
    BY <1>1, <1>12, FileMoves
  <2>2. edit.stage = "Undo" /\ edit.checked = {f}
    BY <1>1, <1>12 DEF Unlink, EditInv
  <2>3. \A h \in Files : aside'[h] = aside[h]
    BY <2>1 DEF FilesTo
  <2>4. EditInv'
    BY <1>1, <1>3, <2>1, <2>2, <2>3 DEF EditInv, To, Aside, Typed, Edits
  <2> QED BY <2>1, <2>4 DEF To
<1>13. ASSUME NEW f \in Files, Restore(f)
       PROVE  Continues /\ EditInv'
  <2>1. /\ To(edit.stage, edit.left \ {f}, edit.changed \ {f}, edit.checked)
        /\ edit.failed => edit'.failed
        /\ FilesTo(f, aside[f], Absent)
    BY <1>1, <1>13, FileMoves
  <2>2. edit.stage = "Restore"
    BY <1>13 DEF Restore, Turn
  <2>3. EditInv'
    BY <1>1, <1>3, <2>1, <2>2 DEF EditInv, To, FilesTo, Aside
  <2> QED BY <2>1, <2>3 DEF To
<1> QED BY <1>2, <1>4, <1>5, <1>6, <1>7, <1>8, <1>9, <1>10, <1>11, <1>12, <1>13 DEF EditStep

-----------------------------------------------------------------------------
(* The folder in all the steps.                                            *)

LEMMA FolderInit == Init => FolderInv
<1> SUFFICES ASSUME Init
             PROVE  FolderInv
  OBVIOUS
<1>1. disk \in Inventories /\ aside \in Inventories /\ recovery = FALSE /\ ~Editing
  BY ContentsAssumption, Inventoried DEF Init, Editing
<1>2. Aside = {}
  BY DEF Init, Aside, NothingAside
<1> QED BY <1>1, <1>2 DEF FolderInv, FolderTypes, Busy, EditInv

(* Between commits, a lock may come to be left and none is removed.        *)
LEMMA AtRest ==
  ASSUME FolderInv, ~Editing, UNCHANGED <<disk, aside, edit>>,
         recovery' \in BOOLEAN, recovery => recovery'
  PROVE  FolderInv'
BY DEF FolderInv, FolderTypes, Busy, EditInv, Editing, Aside

LEMMA HandlersKeepFolder ==
  ASSUME FolderInv, ~Editing, HandleNext, ~\E m \in net : OfGrant(m) /\ StartCommit(m)
  PROVE  FolderInv'
<1>1. CASE \E m \in net : SnapshotUncertain(m)
  BY <1>1, AtRest DEF SnapshotUncertain
<1>2. CASE ~\E m \in net : SnapshotUncertain(m)
  <2>1. UNCHANGED folder
    BY <1>2 DEF HandleNext, Refuse, HandleCheck, HandleRevoke, SnapshotFails, HandleSnapshot,
       HandleRead, HandleBegin, HandleWrite, HandleStatus, HandleRelease, HandleChooserCheck,
       BeginChoose, RefuseChoose, HandleCancelPicker, AnswerChooser, Choose, Dismiss, CannotOpen,
       CloseDialog, HandleClose, RevokeSession, CloseService, host, folder
  <2>2. UNCHANGED <<disk, aside, edit, recovery>> /\ recovery \in BOOLEAN
    BY <2>1 DEF folder, FolderInv, FolderTypes
  <2> QED BY <2>2, AtRest
<1> QED BY <1>1, <1>2

LEMMA CommitStarts ==
  ASSUME IInv, FolderInv, ~Editing, NEW m \in net, OfGrant(m), StartCommit(m)
  PROVE  FolderInv'
<1> DEFINE g == m.grant
<1>1. /\ m.op = "Commit" /\ Accepts(m) /\ m \in Requests
      /\ edit' = NewEdit(m, grant[g].baseline, Uploaded(g))
      /\ UNCHANGED <<disk, aside, recovery, open, grant, net>>
  BY OfNobody DEF StartCommit
<1>2. grant[g].baseline \in Inventories /\ Uploaded(g) \in Inventories
  <2>1. grant[g] \in Grants /\ Uploaded(g) \in Drafts /\ grant[g].baseline # NoContent
    BY <1>1, CommitForms DEF Accepts, AcceptsCommit
  <2> QED BY <2>1, ContentsAssumption DEF Grants, Inventory
<1> HIDE DEF g
<1>3. /\ edit' \in Edits /\ edit'.request = m
      /\ edit'.old = grant[g].baseline /\ edit'.new = Uploaded(g)
      /\ edit'.stage = "Compare" /\ edit'.left = Files /\ edit'.changed = {} /\ edit'.checked = {}
      /\ ~edit'.failed
  BY <1>1, <1>2 DEF NewEdit, Edits, EditStages
<1>4. FolderTypes'
  BY <1>1, <1>3 DEF FolderInv, FolderTypes
<1>5. Busy'
  BY <1>1, <1>3 DEF Busy, Accepts, Uploaded, g
<1>6. EditInv'
  BY <1>1, <1>3, EditForms DEF FolderInv, EditInv, Editing, Aside
<1> QED BY <1>4, <1>5, <1>6 DEF FolderInv

(* What the host is busy with does not change by what it does not do.      *)
LEMMA StaysBusy ==
  ASSUME Busy, Editing, edit'.request = edit.request, edit'.old = edit.old,
         edit'.new = edit.new, UNCHANGED <<open, grant>>, net \subseteq net'
  PROVE  Busy'
BY DEF Busy, Accepts, Uploaded

LEMMA FolderStepHolds ==
  ASSUME FolderInv, FolderStep
  PROVE  FolderInv'
<1>1. UNCHANGED <<open, grant, net>>
  BY DEF FolderStep
<1>2. CASE EditStep
  <2>1. Continues /\ FolderTypes' /\ EditInv' /\ Editing
    BY <1>2, EditGoesOn, OnlyWhileEditing DEF FolderInv
  <2>2. Busy'
    BY <1>1, <2>1, StaysBusy DEF FolderInv, Continues
  <2> QED BY <2>1, <2>2 DEF FolderInv
<1>3. CASE WriteOutside
  <2>1. UNCHANGED <<aside, recovery, edit>> /\ disk' \in Inventories
    BY <1>3, VersionsAssumption DEF WriteOutside, FolderInv, FolderTypes, Inventories
  <2>2. FolderTypes' /\ EditInv'
    BY <2>1 DEF FolderInv, FolderTypes, EditInv, Editing, Aside
  <2>3. Busy'
    BY <1>1, <2>1 DEF FolderInv, Busy, Editing, Accepts, Uploaded
  <2> QED BY <2>2, <2>3 DEF FolderInv
<1> QED BY <1>2, <1>3 DEF FolderStep

(* A commit ends with nothing in the lock directory, or leaves the lock.   *)
LEMMA CommitEndsTold ==
  ASSUME FolderInv, Editing, CommitDenied \/ CommitUncertain \/ Save
  PROVE  FolderInv'
<1>1. edit' = NoEdit /\ UNCHANGED <<disk, aside>> /\ ~Editing'
  BY DEF CommitDenied, CommitUncertain, Save, CommitFails, CommitEnds, Editing
<1>2. recovery \in BOOLEAN /\ recovery' \in BOOLEAN
  BY DEF FolderInv, FolderTypes, CommitDenied, CommitUncertain, Save, EndsRejected, EndsUncertain,
         EndsSaved
<1>3. ~recovery' => Aside = {}
  <2>1. CASE CommitDenied
    BY <2>1 DEF CommitDenied, EndsRejected, Finished, FolderInv, EditInv
  <2>2. CASE CommitUncertain
    BY <2>2 DEF CommitUncertain, EndsUncertain
  <2>3. CASE Save
    BY <2>3 DEF Save, EndsSaved, Finished, FolderInv, EditInv
  <2> QED BY <2>1, <2>2, <2>3
<1>4. FolderTypes' /\ EditInv' /\ Busy'
  BY <1>1, <1>2, <1>3 DEF FolderInv, FolderTypes, EditInv, Busy, Aside
<1> QED BY <1>4 DEF FolderInv

LEMMA ClientLeavesHost ==
  ASSUME ClientStep
  PROVE  UNCHANGED host /\ net \subseteq net'
<1>1. CASE \/ CallChoose \/ ChooserTimeout \/ ChooserChecked \/ NothingChosen \/ Chosen
           \/ CancelPicker \/ Dispose
  BY <1>1 DEF CallChoose, ChooserTimeout, ChooserChecked, NothingChosen, Chosen, CancelPicker,
     Dispose, Discard, Sends
<1>2. ASSUME NEW g \in Tickets,
             \/ Timeout(g) \/ SnapshotAnswered(g) \/ ReadAnswered(g) \/ Opened(g) \/ Discarded(g)
             \/ CallRevoke(g) \/ SendRevoke(g) \/ Revoked(g)
      PROVE  UNCHANGED host /\ net \subseteq net'
  BY <1>2 DEF Timeout, SnapshotAnswered, ReadAnswered, Opened, Discarded, CallRevoke, SendRevoke,
     Revoked, ReleaseDownload, Discard, Sends, Rests
<1>3. ASSUME NEW g \in Tickets,
             \/ \E d \in Drafts : CallSave(g, d)
             \/ SaveChecked(g) \/ SaveBegun(g) \/ ChunkWritten(g) \/ UploadFails(g)
             \/ CommitAnswered(g) \/ StatusAnswered(g) \/ SaveReleased(g)
      PROVE  UNCHANGED host /\ net \subseteq net'
  BY <1>3 DEF CallSave, SaveChecked, SaveBegun, ChunkWritten, UploadFails, CommitAnswered,
     StatusAnswered, SaveReleased, SendChunk, Confirm, SaveFails, Sends, Rests
<1> QED BY <1>1, <1>2, <1>3 DEF ClientStep

LEMMA ClientKeepsFolder ==
  ASSUME FolderInv, ClientStep \/ UNCHANGED vars
  PROVE  FolderInv'
<1>1. UNCHANGED host /\ net \subseteq net'
  BY ClientLeavesHost DEF vars
<1>2. UNCHANGED <<disk, aside, recovery, edit, open, grant>>
  BY <1>1 DEF host
<1>3. FolderTypes' /\ EditInv'
  BY <1>2 DEF FolderInv, FolderTypes, EditInv, Editing, Aside
<1>4. Busy'
  BY <1>1, <1>2 DEF FolderInv, Busy, Editing, Accepts, Uploaded
<1> QED BY <1>3, <1>4 DEF FolderInv

LEMMA FolderKept ==
  ASSUME IInv, FolderInv, [Next]_vars
  PROVE  FolderInv'
<1>1. CASE ~Editing /\ HandleNext
  BY <1>1, HandlersKeepFolder, CommitStarts
<1>2. CASE FolderStep
  BY <1>2, FolderStepHolds
<1>3. CASE Editing /\ (CommitDenied \/ CommitUncertain \/ Save)
  BY <1>3, CommitEndsTold
<1>4. CASE ClientStep \/ UNCHANGED vars
  BY <1>4, ClientKeepsFolder
<1> QED BY <1>1, <1>2, <1>3, <1>4 DEF Next, HostStep

-----------------------------------------------------------------------------
(* The theorems.                                                           *)

LEMMA InitHolds == Init => IInv
<1> SUFFICES ASSUME Init
             PROVE  IInv
  OBVIOUS
<1>1. Types
  <2>1. NoEntry \in Entries
    BY DEF NoEntry, Entries, Stages, NoReply, Replies, Effects, Inventory
  <2>2. [result |-> "Unsaved", revision |-> 0, base |-> NoContent, reached |-> FALSE, confirmed |-> 0]
          \in Records
    BY DEF Records, Results, Inventory
  <2>3. ClientTypes
    <3>1. 0 \in 0..MaxTickets /\ 0 \in Nat
      BY BoundsAssumption
    <3>2. chooser \in [at : {"Ready", "CheckSession", "ChooseWrite", "Opening"},
                       attempt : 0..MaxTickets, stale : BOOLEAN, reply : Choices, setbacks : Nat]
      BY <3>1, ChooserForms DEF Init
    <3> QED BY <2>1, <2>2, <3>2 DEF Init, ClientTypes
  <2>4. HostTypes
    <3>1. service = [next |-> 0, picker |-> 0, dialogs |-> {}]
      BY DEF Init, NoTicket
    <3>2. service \in Pickers /\ service.picker \in 0..service.next
      BY <3>1 DEF Pickers
    <3>3. grant \in [Tickets -> Grants \cup {NoGrant}]
      BY DEF Init
    <3>4. open \in BOOLEAN /\ net \subseteq Requests \cup Asks \cup {CloseRequest}
      BY DEF Init
    <3> QED BY <3>2, <3>3, <3>4 DEF HostTypes, Pickers
  <2> QED BY <2>3, <2>4 DEF Types
<1>2. PickerInv
  BY DEF Init, PickerInv, NoReply
<1>3. ASSUME NEW g \in Tickets
      PROVE  TicketInv(g) /\ Local(g)
  <2>1. /\ client[g] = NoEntry /\ grant[g] = NoGrant /\ ~grant[g].held /\ net = {} /\ ~disposed
    BY DEF Init, NoGrant
  <2>2. TicketInv(g)
    BY <2>1 DEF TicketInv, Fresh, Unused, NoEntry
  <2>3. client[g].stage = "None" /\ ~Saving(g) /\ client[g].reply.is = "None"
    BY <2>1 DEF NoEntry, Saving, NoReply
  <2>4. AwaitsInv(g) /\ ReplyInv(g) /\ SequenceInv(g) /\ OpeningInv(g) /\ RestInv(g)
        /\ UploadingInv(g) /\ CommittingInv(g) /\ ReleasingInv(g) /\ ConfirmedInv(g) /\ UploadInv(g)
    BY <2>1, <2>3 DEF AwaitsInv, ReplyInv, SequenceInv, OpeningInv, RestInv, UploadingInv,
       CommittingInv,
       ReleasingInv, ConfirmedInv, UploadInv, NoEntry
  <2> QED BY <2>2, <2>4 DEF Local
<1>4. ASSUME NEW d \in Drafts
      PROVE  DraftInv(d)
  <2>1. \A g \in Tickets : ~Owns(g, d)
    BY ContentsAssumption DEF Init, Owns, NoEntry, NoGrant
  <2>2. \A g \in Tickets : client[g].draft # d
    BY ContentsAssumption DEF Init, NoEntry
  <2> QED BY <2>1, <2>2 DEF Init, DraftInv
<1> QED BY <1>1, <1>2, <1>3, <1>4 DEF IInv

LEMMA ClientHolds ==
  ASSUME IInv, ClientStep
  PROVE  IInv'
BY ChooserHolds, ChosenHolds, DisposeHolds, TimeoutHolds, SnapshotAnsweredHolds, ReadAnsweredHolds,
   OpenedHolds, DiscardedHolds, CallSaveHolds, SaveCheckedHolds, SaveBegunHolds, ChunkWrittenHolds,
   UploadFailsHolds, CommitAnsweredHolds, StatusAnsweredHolds, SaveReleasedHolds, CallRevokeHolds,
   SendRevokeHolds, RevokedHolds DEF ClientStep

(* What the page and the host have of each grant fits at every moment: in  *)
(* each stage of a selection, a save and a revocation the requests on      *)
(* their way, the host's transfer and what the client awaits are related   *)
(* as IInv says, whatever is late, times out or is cancelled               *)
(* (workspace-files.ts:49-155, transfer.mbt:154-347).  And what an edit    *)
(* has set aside, changed and has still to do fits in each of its stages,  *)
(* as FolderInv says, whatever other programs write (filesystem.c:361-485).*)
THEOREM GrantsAreConsistent == Spec => [](IInv /\ FolderInv)
<1>1. Init => IInv /\ FolderInv
  BY InitHolds, FolderInit
<1>2. IInv /\ FolderInv /\ [Next]_vars => (IInv /\ FolderInv)'
  <2> SUFFICES ASSUME IInv, FolderInv, [Next]_vars
               PROVE  (IInv /\ FolderInv)'
    OBVIOUS
  <2>1. CASE UNCHANGED vars
    BY <2>1, FolderHolds, FolderKept DEF vars, host
  <2>2. CASE HostStep
    BY <2>2, HostHolds, FolderKept
  <2>3. CASE ClientStep
    BY <2>3, ClientHolds, FolderKept
  <2> QED BY <2>1, <2>2, <2>3 DEF Next
<1> QED BY <1>1, <1>2, PTL DEF Spec

-----------------------------------------------------------------------------
(* While the client has not given up a grant, the host has it and no       *)
(* request to revoke it is on its way.                                     *)

Trusts(g) == client[g].stage \in {"Opening", "Ready"} /\ ~client[g].blocked

HeldInv(g) ==
  (open /\ Trusts(g)) =>
    /\ grant[g].held
    /\ \A m \in net : ForGrant(m, g) => m.op # "Revoke"

KeepsHeld(f) ==
  (open' /\ Trusts(f)') =>
    /\ open /\ Trusts(f)
    /\ grant[f].held => grant'[f].held
    /\ \A m \in net' : (ForGrant(m, f) /\ m.op = "Revoke") => m \in net

LEMMA HeldKept ==
  ASSUME NEW g, HeldInv(g), KeepsHeld(g)
  PROVE  HeldInv(g)'
BY DEF HeldInv, KeepsHeld, ForGrant

LEMMA RepliesKeepTrust ==
  ASSUME client \in [Tickets -> Entries], NEW g,
         client' = client \/ \E r : client' = [client EXCEPT ![g].reply = r],
         NEW f \in Tickets
  PROVE  client'[f].stage = client[f].stage /\ client'[f].blocked = client[f].blocked
<1>1. ASSUME NEW r, client' = [client EXCEPT ![g].reply = r]
      PROVE  client'[f].stage = client[f].stage /\ client'[f].blocked = client[f].blocked
  <2>1. client'[f] = client[f] \/ client'[f] = [client[f] EXCEPT !.reply = r]
    BY <1>1
  <2>2. client[f] \in Entries
    OBVIOUS
  <2> QED BY <2>1, <2>2 DEF Entries
<1> QED BY <1>1

(* Only a request to revoke takes a grant.                                 *)
LEMMA RequestsKeepHeld ==
  ASSUME IInv, \A g \in Tickets : HeldInv(g), NEW m \in net, OfGrant(m),
         \/ Refuse(m) \/ HandleCheck(m) \/ HandleRevoke(m)
         \/ SnapshotFails(m) \/ SnapshotUncertain(m) \/ HandleSnapshot(m)
         \/ HandleRead(m) \/ HandleBegin(m) \/ HandleWrite(m)
         \/ HandleStatus(m) \/ HandleRelease(m),
         NEW f \in Tickets
  PROVE  KeepsHeld(f)
<1>1. m.grant \in Tickets /\ ForGrant(m, m.grant) /\ grant \in [Tickets -> Grants \cup {NoGrant}]
      /\ client \in [Tickets -> Entries]
  BY SMTT(30), OfNobody DEF IInv, Types, HostTypes, ClientTypes
<1>2. /\ net' = net \ {m} /\ open' = open
      /\ client' = client \/ \E r : client' = [client EXCEPT ![m.grant].reply = r]
  BY DEF Refuse, HandleCheck, HandleRevoke, SnapshotFails, SnapshotUncertain, HandleSnapshot,
         HandleRead, HandleBegin, HandleWrite, HandleStatus, HandleRelease, Answer, host
<1>3. client'[f].stage = client[f].stage /\ client'[f].blocked = client[f].blocked
  BY <1>1, <1>2, RepliesKeepTrust
<1>4. CASE HandleRevoke(m)
  <2>1. m.op = "Revoke" /\ open
    BY <1>4 DEF HandleRevoke, Accepts
  <2>2. Trusts(f)' => f # m.grant
    BY <1>1, <1>3, <2>1 DEF HeldInv, Trusts
  <2>3. f # m.grant => grant'[f] = grant[f]
    BY <1>1, <1>4 DEF HandleRevoke
  <2> QED BY <1>2, <1>3, <2>2, <2>3 DEF KeepsHeld, Trusts
<1>5. ASSUME ~HandleRevoke(m), grant[f].held
      PROVE  grant'[f].held
  <2>1. CASE Refuse(m) \/ HandleCheck(m) \/ SnapshotFails(m) \/ SnapshotUncertain(m)
             \/ HandleStatus(m)
    BY <1>5, <2>1 DEF Refuse, HandleCheck, SnapshotFails, SnapshotUncertain, HandleStatus, host
  <2>2. CASE HandleSnapshot(m)
    BY <1>1, <1>5, <2>2 DEF HandleSnapshot
  <2>3. CASE HandleRead(m) \/ HandleBegin(m) \/ HandleWrite(m) \/ HandleRelease(m)
    <3>1. grant'[m.grant] \in Grants
      BY <2>3, ReadsLocal, BeginsLocal, WritesLocal, ReleasesLocal
    <3>2. f # m.grant => grant'[f] = grant[f]
      BY <1>1, <2>3 DEF HandleRead, HandleBegin, HandleWrite, HandleRelease
    <3> QED BY <1>5, <3>1, <3>2 DEF Grants
  <2> QED BY <1>5, <2>1, <2>2, <2>3
<1> QED BY <1>2, <1>3, <1>4, <1>5 DEF KeepsHeld, Trusts

LEMMA HostKeepsHeld ==
  ASSUME IInv, FolderInv, \A g \in Tickets : HeldInv(g), HostStep, NEW f \in Tickets
  PROVE  KeepsHeld(f)
<1>1. CASE \E m \in net :
             /\ OfGrant(m)
             /\ \/ Refuse(m) \/ HandleCheck(m) \/ HandleRevoke(m)
                \/ SnapshotFails(m) \/ SnapshotUncertain(m) \/ HandleSnapshot(m)
                \/ HandleRead(m) \/ HandleBegin(m) \/ HandleWrite(m)
                \/ HandleStatus(m) \/ HandleRelease(m)
  BY <1>1, RequestsKeepHeld
<1>2. CASE \E m \in net :
             /\ OfChooser(m)
             /\ \/ HandleChooserCheck(m) \/ BeginChoose(m) \/ RefuseChoose(m)
                \/ HandleCancelPicker(m)
  BY <1>2 DEF HandleChooserCheck, BeginChoose, RefuseChoose, HandleCancelPicker, AnswerChooser,
              KeepsHeld, Trusts
<1>3. CASE \E x \in service.dialogs : Choose(x) \/ Dismiss(x) \/ CannotOpen(x)
  <2>1. PICK x \in service.dialogs : Choose(x) \/ Dismiss(x) \/ CannotOpen(x)
    BY <1>3
  <2>2. grant' = grant \/ grant' = [grant EXCEPT ![x.ticket] = NewGrant]
    BY <2>1 DEF Choose, Dismiss, CannotOpen
  <2>3. grant[f].held => grant'[f].held
    BY <2>2, GrantForms DEF IInv, Types, HostTypes
  <2> QED BY <2>1, <2>3 DEF Choose, Dismiss, CannotOpen, CloseDialog, AnswerChooser, KeepsHeld,
             Trusts
<1>4. CASE HandleClose \/ RevokeSession
  BY <1>4 DEF HandleClose, RevokeSession, CloseService, KeepsHeld
<1>5. CASE FolderStep \/ \E m \in net : StartCommit(m)
  BY <1>5 DEF FolderStep, StartCommit, KeepsHeld, Trusts
<1>6. CASE Editing /\ (CommitDenied \/ CommitUncertain \/ Save)
  <2> DEFINE m == edit.request
  <2>1. /\ net' = net \ {m} /\ open' = open /\ grant'[m.grant] \in Grants
        /\ \A g \in Tickets \ {m.grant} : grant'[g] = grant[g]
        /\ \E r : client' = IF Awaited(m) THEN [client EXCEPT ![m.grant].reply = r] ELSE client
    BY <1>6, CommitSteps
  <2> HIDE DEF m
  <2>2. client'[f].stage = client[f].stage /\ client'[f].blocked = client[f].blocked
    BY <2>1, RepliesKeepTrust DEF IInv, Types, ClientTypes
  <2>3. grant[f].held => grant'[f].held
    BY <2>1 DEF Grants
  <2> QED BY <2>1, <2>2, <2>3 DEF KeepsHeld, Trusts
<1> QED BY <1>1, <1>2, <1>3, <1>4, <1>5, <1>6 DEF HostStep, HandleNext

-----------------------------------------------------------------------------
(* The client does not take back that it gave up a grant, and asks for no  *)
(* revocation of another.                                                  *)

SameTrust(g, entry) == entry.stage = client[g].stage /\ entry.blocked = client[g].blocked

GivenUp(entry) == entry.stage \notin {"Opening", "Ready"} \/ entry.blocked

LEMMA SendingKeepsHeld ==
  ASSUME IInv, NEW g \in Tickets, NEW entry \in Entries, NEW m, Sends(g, entry, m), UNCHANGED host,
         m.op # "Revoke" \/ (m.grant = g /\ GivenUp(entry)),
         SameTrust(g, entry) \/ GivenUp(entry),
         NEW f \in Tickets
  PROVE  KeepsHeld(f)
<1>1. /\ client'[g].stage = entry.stage /\ client'[g].blocked = entry.blocked
      /\ \A k \in Tickets \ {g} : client'[k] = client[k]
      /\ net' = net \cup {m}
  <2>1. client' = [client EXCEPT ![g] = [entry EXCEPT !.awaits = m, !.reply = NoReply]]
        /\ net' = net \cup {m}
    BY DEF Sends
  <2>2. client'[g] = [entry EXCEPT !.awaits = m, !.reply = NoReply]
    BY <2>1 DEF IInv, Types, ClientTypes
  <2>3. client'[g].stage = entry.stage /\ client'[g].blocked = entry.blocked
    BY <2>2 DEF Entries
  <2> QED BY <2>1, <2>3 DEF IInv, Types, ClientTypes
<1>2. open' = open /\ grant' = grant
  BY DEF host
<1> QED BY <1>1, <1>2 DEF KeepsHeld, Trusts, SameTrust, GivenUp, ForGrant

LEMMA RestingKeepsHeld ==
  ASSUME IInv, NEW g \in Tickets, NEW entry \in Entries, Rests(g, entry), UNCHANGED host,
         \/ entry.stage \in {"Opening", "Ready"} /\ ~entry.blocked => Trusts(g)
         \/ GivenUp(entry),
         NEW f \in Tickets
  PROVE  KeepsHeld(f)
<1>1. /\ client'[g].stage = entry.stage /\ client'[g].blocked = entry.blocked
      /\ \A k \in Tickets \ {g} : client'[k] = client[k]
      /\ net' = net
  BY RestsGives DEF IInv, Types, Rested
<1>2. open' = open /\ grant' = grant
  BY DEF host
<1> QED BY <1>1, <1>2 DEF KeepsHeld, Trusts, GivenUp

(* The steps of a save. *)
LEMMA FailingKeepsHeld ==
  ASSUME IInv, NEW g \in Tickets, NEW effect, SaveFails(g, effect), UNCHANGED host, NEW f \in Tickets
  PROVE  KeepsHeld(f)
<1> DEFINE entry == [client[g] EXCEPT !.blocked = TRUE]
<1>1. entry \in Entries /\ entry.blocked
  BY OfTheEntry DEF Entries
<1>2. Rests(g, entry)
  BY DEF SaveFails
<1> HIDE DEF entry
<1> QED BY <1>1, <1>2, RestingKeepsHeld DEF GivenUp

LEMMA ConfirmingKeepsHeld ==
  ASSUME IInv, NEW g \in Tickets, NEW revision \in Nat, Confirm(g, revision), UNCHANGED host,
         client[g].draft \in Drafts, NEW f \in Tickets
  PROVE  KeepsHeld(f)
<1>1. CASE revision # client[g].revision + 1
  BY <1>1, FailingKeepsHeld DEF Confirm
<1>2. CASE revision = client[g].revision + 1
  <2> DEFINE entry == [client[g] EXCEPT !.revision = revision, !.seen = client[g].draft]
             m == Request("Release", g, client[g].sequence)
  <2>1. entry \in Entries /\ SameTrust(g, entry)
    BY OfTheEntry, ContentsAssumption DEF Entries, SameTrust, Inventory
  <2>2. Sends(g, entry, m) /\ m.op # "Revoke"
    BY <1>2 DEF Confirm, Request
  <2> HIDE DEF entry, m
  <2> QED BY <2>1, <2>2, SendingKeepsHeld
<1> QED BY <1>1, <1>2

(* A grant that is discarded. *)
LEMMA DiscardingKeepsHeld ==
  ASSUME IInv, NEW g \in Tickets, Discard(g, client[g]), UNCHANGED host, NEW f \in Tickets
  PROVE  KeepsHeld(f)
<1> DEFINE entry == [client[g] EXCEPT !.stage = "Discarding", !.blocked = TRUE]
           m == Request("Revoke", g, 0)
<1>1. entry \in Entries /\ GivenUp(entry)
  BY ZenonT(30), OfTheEntry DEF Entries, Stages, GivenUp
<1>2. Sends(g, entry, m) /\ m.grant = g
  BY DEF Discard, Request
<1> HIDE DEF entry, m
<1> QED BY <1>1, <1>2, SendingKeepsHeld

(* A selection. *)
LEMMA SelectionKeepsHeld ==
  ASSUME IInv, NEW g \in Tickets,
         SnapshotAnswered(g) \/ ReadAnswered(g) \/ Opened(g) \/ Discarded(g), NEW f \in Tickets
  PROVE  KeepsHeld(f)
<1>1. client[g] \in Entries /\ client[g].opened \in Nat
  BY OfTheEntry
<1>2. UNCHANGED host
  BY DEF SnapshotAnswered, ReadAnswered, Opened, Discarded
<1>3. /\ \A n : Request("Release", g, n).op # "Revoke"
      /\ \A n, offset : ReadRequest(g, n, offset).op # "Revoke"
  BY DEF Request, ReadRequest
<1>4. SameTrust(g, client[g])
  BY DEF SameTrust
<1>5. CASE SnapshotAnswered(g)
  <2>1. CASE Succeeded(g)
    <3> DEFINE entry == [client[g] EXCEPT !.opened = client[g].reply.revision]
    <3>1. client[g].reply.revision \in Nat
      BY <1>5, <2>1, OfTheEntry DEF SnapshotAnswered, Awaits, Succeeded, Local, ReplyInv
    <3>2. entry \in Entries /\ SameTrust(g, entry)
      BY <1>1, <3>1 DEF Entries, SameTrust
    <3>3. Sends(g, entry, ReadRequest(g, client[g].sequence, 0))
      BY <1>5, <2>1 DEF SnapshotAnswered
    <3> HIDE DEF entry
    <3> QED BY <1>2, <1>3, <3>2, <3>3, SendingKeepsHeld
  <2>2. CASE ~Succeeded(g)
    BY <1>1, <1>2, <1>3, <1>4, <1>5, <2>2, SendingKeepsHeld DEF SnapshotAnswered, ReleaseDownload
  <2> QED BY <2>1, <2>2
<1>6. CASE ReadAnswered(g)
  <2>1. \/ \E offset : Sends(g, client[g], ReadRequest(g, client[g].sequence, offset))
        \/ /\ Succeeded(g)
           /\ ReleaseDownload(g, [client[g] EXCEPT !.revision = client[g].opened,
                                                   !.seen = client[g].reply.content])
        \/ ReleaseDownload(g, [client[g] EXCEPT !.opened = 0])
    BY <1>6 DEF ReadAnswered
  <2>2. CASE \E offset : Sends(g, client[g], ReadRequest(g, client[g].sequence, offset))
    BY <1>1, <1>2, <1>3, <1>4, <2>2, SendingKeepsHeld
  <2>3. CASE /\ Succeeded(g)
             /\ ReleaseDownload(g, [client[g] EXCEPT !.revision = client[g].opened,
                                                     !.seen = client[g].reply.content])
    <3> DEFINE entry == [client[g] EXCEPT !.revision = client[g].opened,
                                          !.seen = client[g].reply.content]
    <3>1. client[g].reply.content \in Inventories
      BY <1>6, <2>3, OfTheEntry DEF ReadAnswered, Awaits, Succeeded, Local, ReplyInv
    <3>2. entry \in Entries /\ SameTrust(g, entry)
      BY <1>1, <3>1 DEF Entries, SameTrust, Inventory
    <3>3. Sends(g, entry, Request("Release", g, entry.sequence))
      BY <2>3 DEF ReleaseDownload
    <3> HIDE DEF entry
    <3> QED BY <1>2, <1>3, <3>2, <3>3, SendingKeepsHeld
  <2>4. CASE ReleaseDownload(g, [client[g] EXCEPT !.opened = 0])
    <3> DEFINE entry == [client[g] EXCEPT !.opened = 0]
    <3>1. entry \in Entries /\ SameTrust(g, entry)
      BY <1>1 DEF Entries, SameTrust
    <3>2. Sends(g, entry, Request("Release", g, entry.sequence))
      BY <2>4 DEF ReleaseDownload
    <3> HIDE DEF entry
    <3> QED BY <1>2, <1>3, <3>1, <3>2, SendingKeepsHeld
  <2> QED BY <2>1, <2>2, <2>3, <2>4
<1>7. CASE Opened(g)
  <2>1. CASE Discard(g, client[g])
    BY <1>2, <2>1, DiscardingKeepsHeld
  <2>2. CASE Rests(g, [client[g] EXCEPT !.stage = "Ready"])
    <3> DEFINE entry == [client[g] EXCEPT !.stage = "Ready"]
    <3>1. entry \in Entries /\ entry.blocked = client[g].blocked
      BY <1>1 DEF Entries, Stages
    <3>2. client[g].stage = "Opening"
      BY <1>7 DEF Opened
    <3>3. Rests(g, entry)
      BY <2>2
    <3> HIDE DEF entry
    <3> QED BY <1>2, <3>1, <3>2, <3>3, RestingKeepsHeld DEF Trusts
  <2> QED BY <1>7, <2>1, <2>2 DEF Opened
<1>8. CASE Discarded(g)
  <2>1. Gone \in Entries /\ GivenUp(Gone)
    BY ZenonT(30) DEF Gone, NoEntry, Entries, Stages, NoReply, Replies, Effects, Inventory, GivenUp
  <2> QED BY <1>2, <1>8, <2>1, RestingKeepsHeld DEF Discarded
<1> QED BY <1>5, <1>6, <1>7, <1>8

LEMMA SaveKeepsHeld ==
  ASSUME IInv, NEW g \in Tickets,
         \/ \E d \in Drafts : CallSave(g, d)
         \/ SaveChecked(g) \/ SaveBegun(g) \/ ChunkWritten(g) \/ UploadFails(g)
         \/ CommitAnswered(g) \/ StatusAnswered(g) \/ SaveReleased(g),
         NEW f \in Tickets
  PROVE  KeepsHeld(f)
<1>1. /\ client[g] \in Entries /\ client[g].sequence \in Nat /\ client[g].reply \in Replies
      /\ SameTrust(g, client[g])
  BY OfTheEntry DEF SameTrust
<1>2. UNCHANGED host
  BY ZenonT(30) DEF CallSave, SaveChecked, SaveBegun, ChunkWritten, UploadFails, CommitAnswered,
     StatusAnswered,
         SaveReleased
<1>3. CASE \E d \in Drafts : CallSave(g, d)
  <2>1. PICK d \in Drafts : CallSave(g, d)
    BY <1>3
  <2>2. CASE client[g].blocked
    BY <1>2, <2>1, <2>2 DEF CallSave, KeepsHeld, Trusts, host
  <2>3. CASE ~client[g].blocked
    <3> DEFINE n == client[g].sequence + 1
               entry == [client[g] EXCEPT !.sequence = n, !.draft = d]
    <3>1. Sends(g, entry, Request("CheckSession", g, n))
      BY ZenonT(30), <2>1, <2>3 DEF CallSave
    <3>2. n \in Nat /\ Request("CheckSession", g, n).op # "Revoke"
      BY <1>1 DEF Request
    <3> HIDE DEF n
    <3>3. entry \in Entries /\ SameTrust(g, entry)
      BY <1>1, <3>2 DEF Entries, SameTrust
    <3> HIDE DEF entry
    <3> QED BY <1>2, <3>1, <3>2, <3>3, SendingKeepsHeld
  <2> QED BY <2>2, <2>3
<1>4. CASE SaveChecked(g) \/ SaveBegun(g) \/ ChunkWritten(g)
  <2>1. \E m : Sends(g, client[g], m) /\ m.op # "Revoke"
    BY <1>4 DEF SaveChecked, SaveBegun, ChunkWritten, SendChunk, BeginRequest, WriteRequest, Request
  <2> QED BY <1>1, <1>2, <2>1, SendingKeepsHeld
<1>5. CASE UploadFails(g)
  BY <1>2, <1>5, FailingKeepsHeld DEF UploadFails
<1>6. CASE CommitAnswered(g)
  <2>1. Saving(g) /\ client[g].draft \in Drafts /\ ReplyInv(g)
    BY <1>6, StageOf, SavingForms DEF CommitAnswered, Awaits, Local
  <2>2. CASE Succeeded(g)
    <3>1. client[g].reply.revision \in Nat
      BY <1>6, <2>1, <2>2 DEF CommitAnswered, Awaits, Succeeded, ReplyInv
    <3> QED BY <1>2, <1>6, <2>1, <2>2, <3>1, ConfirmingKeepsHeld DEF CommitAnswered
  <2>3. CASE ~Succeeded(g)
    <3> DEFINE entry == [client[g] EXCEPT !.error = client[g].reply.effect]
               m == Request("Status", g, client[g].sequence)
    <3>1. Sends(g, entry, m) /\ m.op # "Revoke"
      BY <1>6, <2>3 DEF CommitAnswered, Request
    <3>2. client[g].reply.effect \in Effects
      BY <1>1, <1>6, <2>3, ReplyForms DEF CommitAnswered, Awaits, Succeeded
    <3>3. entry \in Entries /\ SameTrust(g, entry)
      BY <1>1, <3>2 DEF Entries, SameTrust
    <3> HIDE DEF entry, m
    <3> QED BY <1>2, <3>1, <3>3, SendingKeepsHeld
  <2> QED BY <2>2, <2>3
<1>7. CASE StatusAnswered(g)
  <2>1. Saving(g) /\ client[g].draft \in Drafts /\ ReplyInv(g)
    BY <1>7, StageOf, SavingForms DEF StatusAnswered, Awaits, Local
  <2>2. \/ \E effect : SaveFails(g, effect)
        \/ /\ Succeeded(g) /\ client[g].reply.state = "committed"
           /\ Confirm(g, client[g].reply.revision)
    BY <1>7 DEF StatusAnswered
  <2>3. (Succeeded(g) /\ client[g].reply.state = "committed") => client[g].reply.revision \in Nat
    BY <1>7, <2>1 DEF StatusAnswered, Awaits, Succeeded, ReplyInv, Statuses
  <2> QED BY <1>2, <2>1, <2>2, <2>3, FailingKeepsHeld, ConfirmingKeepsHeld
<1>8. CASE SaveReleased(g)
  <2>1. Rests(g, client[g])
    BY <1>8 DEF SaveReleased
  <2> QED BY <1>1, <1>2, <2>1, RestingKeepsHeld DEF Trusts
<1> QED BY <1>3, <1>4, <1>5, <1>6, <1>7, <1>8

(* The end of a grant. *)
LEMMA RevokingKeepsHeld ==
  ASSUME IInv, NEW g \in Tickets, CallRevoke(g) \/ SendRevoke(g) \/ Revoked(g), NEW f \in Tickets
  PROVE  KeepsHeld(f)
<1>1. client[g] \in Entries /\ (client[g].stage = "Revoking" => client[g].blocked)
  BY OfTheEntry DEF Local, AwaitsInv
<1>2. UNCHANGED host
  BY DEF CallRevoke, SendRevoke, Revoked
<1>3. CASE CallRevoke(g)
  <2>1. client' = [client EXCEPT ![g].stage = "Revoking", ![g].blocked = TRUE] /\ net' = net
    BY <1>3 DEF CallRevoke
  <2>2. client'[g] = [client[g] EXCEPT !.stage = "Revoking", !.blocked = TRUE]
        /\ \A k \in Tickets \ {g} : client'[k] = client[k]
    BY <2>1 DEF IInv, Types, ClientTypes
  <2>3. client'[g].blocked
    BY <1>1, <2>2 DEF Entries
  <2> QED BY <1>2, <2>1, <2>2, <2>3 DEF KeepsHeld, Trusts, host
<1>4. CASE SendRevoke(g)
  <2>1. Sends(g, client[g], Request("Revoke", g, 0)) /\ client[g].stage = "Revoking"
    BY <1>4 DEF SendRevoke
  <2>2. Request("Revoke", g, 0).grant = g
    BY DEF Request
  <2> QED BY <1>1, <1>2, <2>1, <2>2, SendingKeepsHeld DEF SameTrust, GivenUp
<1>5. CASE Revoked(g)
  <2> DEFINE entry == [client[g] EXCEPT !.stage = "Ready"]
  <2>1. entry \in Entries /\ GivenUp(entry)
    BY <1>1, <1>5 DEF Revoked, Entries, Stages, GivenUp
  <2>2. Gone \in Entries /\ GivenUp(Gone)
    BY DEF Gone, NoEntry, Entries, Stages, NoReply, Replies, Effects, Inventory, GivenUp
  <2>3. Rests(g, Gone) \/ Rests(g, entry)
    BY <1>5 DEF Revoked
  <2> HIDE DEF entry
  <2> QED BY <1>2, <2>1, <2>2, <2>3, RestingKeepsHeld
<1> QED BY <1>3, <1>4, <1>5

(* The picker's ticket comes with the grant, and nothing was asked of it.  *)
LEMMA ChosenKeepsHeld ==
  ASSUME IInv, Chosen, \A k \in Tickets : HeldInv(k), NEW f \in Tickets
  PROVE  HeldInv(f)'
<1>1. chooser.at = "ChooseWrite" /\ chooser.reply.is = "Ok" /\ chooser.reply.ticket # NoTicket
      /\ UNCHANGED host
  BY DEF Chosen, Choosing
<1>2. /\ chooser.reply.ticket = service.next /\ service.next \in Tickets
      /\ client[service.next].stage = "None"
      /\ open => grant[service.next].held
  BY <1>1, BoundsAssumption DEF IInv, PickerInv, Types, HostTypes, ClientTypes, NoTicket, Tickets
<1>3. PICK g \in Tickets : g = chooser.reply.ticket
  BY <1>2
<1>4. (open => grant[g].held) /\ client[g] \in Entries /\ \A m \in net : ~ForGrant(m, g)
  BY <1>2, <1>3, OfTheEntry DEF TicketInv, Fresh
<1>5. CASE chooser.stale
  BY <1>1, <1>3, <1>5, DiscardingKeepsHeld, HeldKept DEF Chosen
<1>6. CASE ~chooser.stale
  <2> DEFINE entry == [client[g] EXCEPT !.stage = "Opening", !.sequence = 1]
             m == Request("Snapshot", g, 1)
  <2>1. Sends(g, entry, m)
    BY <1>3, <1>6 DEF Chosen
  <2>2. m.op = "Snapshot" /\ m.grant = g
    BY DEF Request
  <2>3. /\ net' = net \cup {m} /\ \A k \in Tickets \ {g} : client'[k] = client[k]
    BY <2>1 DEF Sends, IInv, Types, ClientTypes
  <2> HIDE DEF m, entry
  <2>4. grant' = grant /\ open' = open
    BY <1>1 DEF host
  <2>5. CASE f = g
    BY <1>4, <2>2, <2>3, <2>4, <2>5 DEF HeldInv, ForGrant
  <2>6. CASE f # g
    <3>1. KeepsHeld(f)
      BY <2>2, <2>3, <2>4, <2>6 DEF KeepsHeld, Trusts, ForGrant
    <3> QED BY <3>1, HeldKept
  <2> QED BY <2>5, <2>6
<1> QED BY <1>5, <1>6

LEMMA OthersKeepHeld ==
  ASSUME IInv,
         \/ CallChoose \/ ChooserTimeout \/ ChooserChecked \/ NothingChosen \/ CancelPicker
         \/ Dispose \/ \E g \in Tickets : Timeout(g)
         \/ UNCHANGED vars,
         NEW f \in Tickets
  PROVE  KeepsHeld(f)
<1>1. UNCHANGED host
  BY ZenonT(30) DEF CallChoose, ChooserTimeout, ChooserChecked, NothingChosen, CancelPicker,
     Dispose, Timeout, vars
<1>2. CASE Dispose
  <2>1. client'[f].stage = "Gone"
    BY ZenonT(30), <1>2 DEF Dispose, Gone, NoEntry
  <2> QED BY <2>1 DEF KeepsHeld, Trusts
<1>3. CASE \E g \in Tickets : Timeout(g)
  <2>1. PICK g \in Tickets : Timeout(g)
    BY <1>3
  <2>2. client' = [client EXCEPT ![g].reply = TimedOut] /\ net' = net
    BY <2>1 DEF Timeout
  <2>3. client'[f] = client[f] \/ client'[f] = [client[f] EXCEPT !.reply = TimedOut]
    BY <2>2 DEF IInv, Types, ClientTypes
  <2>4. client'[f].stage = client[f].stage /\ client'[f].blocked = client[f].blocked
    BY <2>3, OfTheEntry DEF Entries
  <2> QED BY <1>1, <2>2, <2>4 DEF KeepsHeld, Trusts, host
<1>4. CASE CallChoose \/ ChooserTimeout \/ ChooserChecked \/ NothingChosen \/ CancelPicker
           \/ UNCHANGED vars
  <2>1. client' = client
    BY <1>4 DEF CallChoose, ChooserTimeout, ChooserChecked, NothingChosen, CancelPicker, vars
  <2>2. \A m \in net' : m \in net \/ ~OfGrant(m)
    BY <1>4 DEF CallChoose, ChooserTimeout, ChooserChecked, NothingChosen, CancelPicker, vars,
       OfGrant, Ask
  <2> QED BY <1>1, <2>1, <2>2 DEF KeepsHeld, Trusts, host, ForGrant
<1> QED BY <1>2, <1>3, <1>4

AllHeld == \A g \in Tickets : HeldInv(g)

(* As long as the session is open, the host has every grant of which the   *)
(* page opens the folder or may save, and no request to revoke it is under *)
(* way: the client gives a grant up before it asks for that, and never     *)
(* takes it back (workspace-files.ts:142-145).                             *)
THEOREM TrustedIsHeld == Spec => []AllHeld
<1>1. Init => AllHeld
  BY DEF Init, AllHeld, HeldInv, Trusts, NoEntry
<1>2. IInv /\ FolderInv /\ AllHeld /\ [Next]_vars => AllHeld'
  <2> SUFFICES ASSUME IInv, FolderInv, AllHeld, [Next]_vars, NEW f \in Tickets
               PROVE  HeldInv(f)'
    BY DEF AllHeld
  <2>1. HeldInv(f)
    BY DEF AllHeld
  <2>2. CASE HostStep
    BY <2>1, <2>2, HostKeepsHeld, HeldKept DEF AllHeld
  <2>3. CASE ClientStep
    BY <2>1, <2>3, ChosenKeepsHeld, OthersKeepHeld, SelectionKeepsHeld, SaveKeepsHeld,
       RevokingKeepsHeld,
       HeldKept DEF ClientStep, AllHeld
  <2>4. CASE UNCHANGED vars
    BY <2>1, <2>4, OthersKeepHeld, HeldKept
  <2> QED BY <2>2, <2>3, <2>4 DEF Next
<1> QED BY <1>1, <1>2, GrantsAreConsistent, PTL DEF Spec

-----------------------------------------------------------------------------
(* The properties.                                                         *)

LEMMA FilesHold ==
  ASSUME IInv, FolderInv, AllHeld
  PROVE  FilesInv
<1>1. ASSUME NEW g \in Tickets, grant[g].held
      PROVE  /\ open
             /\ client[g].stage = "Gone" \/ grant[g].retired <= client[g].sequence
             /\ grant[g].transfer.kind = "Upload" =>
                  /\ Len(grant[g].transfer.chunks) <= Chunks
                  /\ \A i \in 1..Len(grant[g].transfer.chunks) :
                       grant[g].transfer.chunks[i] = grant[g].transfer.chunks[1]
  BY <1>1 DEF IInv, TicketInv, Local, SequenceInv, UploadInv
<1>2. service.next \in 0..MaxTickets
  BY BoundsAssumption DEF IInv, Types, HostTypes, ClientTypes, PickerInv
<1>3. FilesTypeOK
  BY <1>1, <1>2 DEF FilesTypeOK, IInv, Types, HostTypes, ClientTypes, FolderInv, FolderTypes
<1>4. ASSUME NEW g \in Tickets, open, client[g].stage = "Ready", ~client[g].blocked
      PROVE  LET page == client[g]
                 held == grant[g]
             IN
             /\ held.held
             /\ page.awaits = NoRequest =>
                  /\ held.revision = page.revision
                  /\ held.baseline = page.seen
                  /\ Replaceable(held.transfer)
                  /\ held.retired <= page.sequence
             /\ (page.awaits.op = "Write" /\ ~Erred(g)) =>
                  /\ IsActive(held.transfer, "Upload", page.sequence)
                  /\ Len(held.transfer.chunks) =
                       page.awaits.offset + (IF Succeeded(g) THEN 1 ELSE 0)
             /\ (page.awaits.op = "Commit" /\ page.reply = NoReply) =>
                  /\ IsActive(held.transfer, "Upload", page.sequence)
                  /\ Len(held.transfer.chunks) = Chunks
  <2>1. grant[g].held
    BY <1>4 DEF AllHeld, HeldInv, Trusts
  <2>2. client[g].reply \in Replies /\ Local(g) /\ client[g].reply.is \in {"None", "Ok", "Error"}
        /\ (client[g].reply.is = "None" <=> client[g].reply = NoReply)
    BY OfTheEntry, ReplyForms
  <2>3. client[g].awaits = NoRequest => Settled(g, client[g].sequence)
    BY <1>4, <2>2 DEF Local, RestInv
  <2>4. (client[g].awaits.op = "Write" /\ ~Erred(g)) =>
          /\ Holds(g, client[g].sequence)
          /\ Len(grant[g].transfer.chunks) =
               client[g].awaits.offset + (IF client[g].reply = NoReply THEN 0 ELSE 1)
    BY <1>4, <2>2 DEF Local, UploadingInv, Saving, SaveOps, Erred, Unrefused
  <2>5. (client[g].awaits.op = "Commit" /\ client[g].reply = NoReply) =>
          Holds(g, client[g].sequence) /\ Len(grant[g].transfer.chunks) = Chunks
    BY <1>4, <2>2 DEF Local, CommittingInv, Saving, SaveOps
  <2>6. client[g].awaits = NoRequest =>
          /\ grant[g].revision = client[g].revision /\ grant[g].baseline = client[g].seen
          /\ Replaceable(grant[g].transfer) /\ grant[g].retired <= client[g].sequence
    BY <2>3 DEF Settled, Agreed, Replaceable
  <2>7. ~Erred(g) => (IF client[g].reply = NoReply THEN 0 ELSE 1) = (IF Succeeded(g) THEN 1 ELSE 0)
    BY <2>2 DEF Erred, Succeeded, NoReply
  <2> QED BY <2>1, <2>4, <2>5, <2>6, <2>7 DEF Holds
<1>5. InStep
  BY <1>4 DEF InStep
<1>6. ASSUME ~Editing, ~recovery
      PROVE  aside = NothingAside
  <2>1. \A f \in Files : aside[f] = Absent
    BY <1>6 DEF FolderInv, EditInv, Aside
  <2> QED BY <2>1 DEF FolderInv, FolderTypes, Inventories, NothingAside
<1>7. BackupsTold
  BY <1>6 DEF BackupsTold
<1> QED BY <1>3, <1>5, <1>7 DEF FilesInv

(* Until a save on it fails, the client and the host agree about a grant   *)
(* whatever requests are late: on its revision and inventory between       *)
(* saves, and on how far the upload is during one.  A late release or      *)
(* snapshot of an earlier sequence changes nothing (transfer.mbt:334).     *)
(* And no backup is left behind without the lock (filesystem.c:477-485).   *)
THEOREM FilesAgree == Spec => []FilesInv
BY GrantsAreConsistent, TrustedIsHeld, FilesHold, PTL

(* A save that returns a revision was confirmed under it after the whole   *)
(* draft was read back, and one that fails with no effect left nothing of  *)
(* its edit in the folder while the host has the session: it was refused   *)
(* before it touched a file, by a lock that was left too, or every file    *)
(* that it had changed was put back (workspace-files.ts:120, transfer.mbt: *)
(* 276-287, filesystem.c:345, 461-479).                                    *)
THEOREM SavesTellTheTruth == Spec => []ReportsAreTrue
<1>1. IInv => ReportsAreTrue
  BY DEF IInv, DraftInv, ReportsAreTrue
<1> QED BY <1>1, GrantsAreConsistent, PTL

(* The inventory that an edit starts from is the one that the page saw.    *)
LEMMA StartsFromSeen ==
  ASSUME IInv, FolderInv, Editing
  PROVE  edit.old = saves[edit.new].base
<1> DEFINE m == edit.request
<1>1. /\ m \in net /\ OfGrant(m) /\ m.op = "Commit" /\ Accepts(m)
      /\ edit.old = grant[m.grant].baseline /\ edit.new = Uploaded(m.grant)
  BY DEF FolderInv, Busy
<1> QED BY <1>1, CommitForms

(* A file may lose its version only to the removal of a backup.            *)
LEMMA OnlyBackupsGo ==
  ASSUME FolderInv, EditStep, NEW f \in Files \ edit.checked
  PROVE  Destroys(f) \subseteq {edit.old[f]}
<1>1. Typed /\ Editing /\ EditInv
  BY OnlyWhileEditing, Inventoried, VersionsAssumption DEF FolderInv, FolderTypes, Typed, Edits
<1>2. CASE NextStage \/ GiveUp
  BY <1>2 DEF NextStage, GiveUp, Destroys
<1>3. ASSUME NEW h \in Files,
             Compare(h) \/ Verify(h) \/ ReadBack(h) \/ CheckInstalled(h) \/ NotUndone(h)
      PROVE  Destroys(f) \subseteq {edit.old[f]}
  BY <1>3 DEF Compare, Verify, ReadBack, CheckInstalled, NotUndone, Destroys
<1>4. ASSUME NEW h \in Files, SetAside(h)
      PROVE  Destroys(f) \subseteq {edit.old[f]}
  <2>1. FilesTo(h, Absent, disk[h]) /\ aside[h] = Absent
    BY <1>1, <1>4, FileMoves DEF SetAside, MovesAside, Turn, Unreplaced, Aside
  <2> QED BY <2>1 DEF FilesTo, Destroys
<1>5. ASSUME NEW h \in Files, Install(h) \/ Restore(h)
      PROVE  Destroys(f) \subseteq {edit.old[f]}
  <2>1. disk[h] = Absent
    BY <1>5 DEF Install, Restore
  <2>2. FilesTo(h, edit.new[h], aside[h]) \/ FilesTo(h, aside[h], Absent)
    BY <1>1, <1>5, FileMoves
  <2> QED BY <2>1, <2>2 DEF FilesTo, Destroys
<1>6. ASSUME NEW h \in Files, Clean(h)
      PROVE  Destroys(f) \subseteq {edit.old[f]}
  <2>1. FilesTo(h, disk[h], Absent)
    BY <1>1, <1>6, FileMoves
  <2>2. aside[h] \in {Absent, edit.old[h]}
    BY <1>1, <1>6 DEF EditInv, Clean, Turn
  <2> QED BY <2>1, <2>2 DEF FilesTo, Destroys
<1>7. ASSUME NEW h \in Files, Unlink(h)
      PROVE  Destroys(f) \subseteq {edit.old[f]}
  <2>1. FilesTo(h, Absent, aside[h]) /\ f # h
    BY <1>1, <1>7, FileMoves DEF Unlink
  <2> QED BY <2>1 DEF FilesTo, Destroys
<1> QED BY <1>2, <1>3, <1>4, <1>5, <1>6, <1>7 DEF EditStep

(* Whatever other programs write, and between whichever steps of the       *)
(* comparison, the edit, its rollback or the readback: the edit loses no   *)
(* version of a file but the one that the page saw (filesystem.c:406-485), *)
(* unless that file is the one which a rollback has checked and is about   *)
(* to unlink (filesystem.c:466).                                           *)
THEOREM NothingIsOverwritten == Spec => NoLostUpdate
<1> DEFINE Kept(f) == Destroys(f) \subseteq {saves[edit.new].base[f], edit.new[f]}
           AllKept == (Editing /\ edit' # edit) => \A f \in Files \ edit.checked : Kept(f)
<1>1. ASSUME IInv, FolderInv, [Next]_vars, Editing, edit' # edit, NEW f \in Files \ edit.checked
      PROVE  Kept(f)
  <2>1. EditStep \/ CommitDenied \/ CommitUncertain \/ Save
    <3>1. ~ClientStep /\ ~UNCHANGED vars
      BY <1>1, ClientLeavesHost DEF host, vars
    <3>2. ~WriteOutside
      BY <1>1 DEF WriteOutside
    <3> QED BY <1>1, <3>1, <3>2 DEF Next, HostStep, FolderStep
  <2>2. CASE EditStep
    BY <1>1, <2>2, OnlyBackupsGo, StartsFromSeen
  <2>3. CASE CommitDenied \/ CommitUncertain \/ Save
    BY <2>3 DEF CommitDenied, CommitUncertain, Save, CommitFails, CommitEnds, Destroys
  <2> QED BY <2>1, <2>2, <2>3
<1>2. IInv /\ FolderInv /\ [Next]_vars => [AllKept]_vars
  BY <1>1
<1> QED BY <1>2, GrantsAreConsistent, PTL DEF Spec, NoLostUpdate
=============================================================================
