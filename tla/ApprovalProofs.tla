--------------------------- MODULE ApprovalProofs ---------------------------
(***************************************************************************)
(* Machine-checked proofs about Approval, for every set of users,          *)
(* requests, handlers and replicas.                                        *)
(*                                                                         *)
(* What an approved row says cannot be proved from the table alone: the    *)
(* row is written from a copy that a handler made earlier.  The inductive  *)
(* invariant therefore says of every copy, in whatever stage its handler   *)
(* is, what QuorumBacked says of the table (RowOK), and that the copy      *)
(* still agrees with the table on the columns that Update does not write.  *)
(***************************************************************************)
EXTENDS Approval, FiniteSetTheorems, FunctionTheorems, SequenceTheorems, TLAPS

OneVoteEach(votes) ==
    \A i, j \in DOMAIN votes : votes[i].user = votes[j].user => i = j

VotedFor(row, u, d) ==
    \E i \in DOMAIN row.approvers : row.approvers[i] = [user |-> u, decision |-> d]

RowOK(row) ==
    /\ OneVoteEach(row.approvers)
    /\ \A i \in DOMAIN row.approvers : row.approvers[i].user # row.requester
    /\ row.status = "pending" => ~HasRejection(row)
    /\ row.status \in {"pending", "expired"} => row.resolvedBy = NoUser
    /\ row.status = "approved" => /\ ~HasRejection(row)
                                  /\ ApprovalCount(row) >= row.required
    /\ row.status \in Decision => VotedFor(row, row.resolvedBy, row.status)
    /\ row.status = "cancelled" => row.resolvedBy = row.requester

\* A handler's copy belongs to a row that exists and is of the same request.
CopyOK(h) ==
    /\ job[h] \in Req
    /\ db[job[h]].status # "none"
    /\ mem[h].requester = db[job[h]].requester
    /\ mem[h].required = db[job[h]].required
    /\ pc[h] \in {"send", "store"} => mem[h].status = "pending"
    /\ pc[h] = "update" => mem[h].status \in {"pending", "approved", "rejected", "cancelled"}

IInv ==
    /\ TypeOK
    /\ \A r \in Req : RowOK(db[r])
    /\ \A h \in Handler : RowOK(mem[h])
    /\ \A h \in Handler : pc[h] # "idle" => CopyOK(h)
-----------------------------------------------------------------------------
(* Lemmas about the operators of the model.                                *)

\* A row is a record of its seven columns.
LEMMA RowFields ==
    ASSUME NEW row \in Row
    PROVE  /\ row.requester \in User \cup {NoUser}
           /\ row.status \in Status
           /\ row.approvers \in Seq(Vote)
           /\ row.required \in Nat
           /\ row.expires \in Nat
           /\ row.resolvedBy \in User \cup {NoUser}
           /\ row.message \in BOOLEAN
  BY DEF Row

\* The empty row satisfies the invariant of rows.
LEMMA NoRowOK == NoRow \in Row /\ RowOK(NoRow)
<1>1. <<>> \in Seq(Vote) /\ DOMAIN <<>> = {}
  BY EmptySeq
<1>2. NoRow \in Row
  BY <1>1 DEF NoRow, Row, Status, Resolved
<1>3. RowOK(NoRow)
  BY <1>1 DEF NoRow, RowOK, OneVoteEach, Decision
<1>. QED  BY <1>2, <1>3

\* Recording a decision keeps one entry per user, changes only the caller's
\* entry, and leaves the caller's entry with the new decision (Decide's loop
\* over req.Approvers).
LEMMA RecordVoteProperties ==
    ASSUME NEW votes \in Seq(Vote), OneVoteEach(votes),
           NEW u \in User, NEW d \in Decision
    PROVE  /\ RecordVote(votes, u, d) \in Seq(Vote)
           /\ OneVoteEach(RecordVote(votes, u, d))
           /\ \E i \in DOMAIN RecordVote(votes, u, d) :
                 RecordVote(votes, u, d)[i] = [user |-> u, decision |-> d]
           /\ \A i \in DOMAIN RecordVote(votes, u, d) :
                 \/ RecordVote(votes, u, d)[i] = [user |-> u, decision |-> d]
                 \/ i \in DOMAIN votes /\ RecordVote(votes, u, d)[i] = votes[i]
<1>. DEFINE mine == {i \in DOMAIN votes : votes[i].user = u}
            new == [user |-> u, decision |-> d]
            out == RecordVote(votes, u, d)
<1>1. new \in Vote /\ new.user = u
  BY DEF Vote
<1>2. Len(votes) \in Nat /\ DOMAIN votes = 1..Len(votes)
  BY LenProperties
<1>3. CASE mine = {}
  <2>1. out = Append(votes, new)
    BY <1>3 DEF RecordVote
  <2>2. /\ out \in Seq(Vote)
        /\ Len(out) = Len(votes) + 1
        /\ \A i \in 1..Len(votes) : out[i] = votes[i]
        /\ out[Len(votes) + 1] = new
    BY <1>1, <2>1, AppendProperties DEF new
  <2>3. DOMAIN out = 1..(Len(votes) + 1)
    BY <2>2, LenProperties
  <2>4. \A i \in DOMAIN votes : votes[i].user # u
    BY <1>3
  <2>5. OneVoteEach(out)
    <3>. SUFFICES ASSUME NEW i \in DOMAIN out, NEW j \in DOMAIN out, out[i].user = out[j].user
                  PROVE  i = j
      BY DEF OneVoteEach
    <3>. QED  BY <1>1, <1>2, <2>2, <2>3, <2>4 DEF OneVoteEach
  <2>. QED  BY <1>2, <2>2, <2>3, <2>5
<1>4. CASE mine # {}
  <2>. DEFINE first == CHOOSE i \in mine : \A j \in mine : i <= j
  <2>1. PICK k \in mine : TRUE
    BY <1>4
  <2>2. \A j \in mine : j = k
    BY DEF OneVoteEach
  <2>3. k \in 1..Len(votes) /\ k <= k
    BY <1>2
  <2>4. first \in mine
    BY <2>1, <2>2, <2>3
  <2>5. first \in 1..Len(votes)
    BY <2>4, <1>2
  <2>6. out = [votes EXCEPT ![first] = new]
    BY <1>4 DEF RecordVote
  <2>7. /\ out \in Seq(Vote)
        /\ Len(out) = Len(votes)
        /\ \A j \in 1..Len(votes) : out[j] = IF j = first THEN new ELSE votes[j]
    BY <1>1, <2>5, <2>6, ExceptSeq
  <2>8. DOMAIN out = 1..Len(votes)
    BY <2>7, LenProperties
  <2>9. OneVoteEach(out)
    <3>. SUFFICES ASSUME NEW i \in DOMAIN out, NEW j \in DOMAIN out, out[i].user = out[j].user
                  PROVE  i = j
      BY DEF OneVoteEach
    <3>1. votes[first].user = u
      BY <2>4
    <3>2. out[i].user = votes[i].user /\ out[j].user = votes[j].user
      BY <1>1, <2>7, <2>8, <3>1
    <3>. QED  BY <1>2, <2>8, <3>2 DEF OneVoteEach
  <2>. QED  BY <1>2, <2>5, <2>7, <2>8, <2>9
<1>. QED  BY <1>3, <1>4

\* The row computed by Decide satisfies the invariant of rows: the threshold
\* and rejection checks come after the caller's vote is recorded.
LEMMA DecidedOK ==
    ASSUME NEW row \in Row, RowOK(row), row.status = "pending",
           NEW u \in User, u # row.requester, NEW d \in Decision
    PROVE  /\ Decided(row, u, d) \in Row
           /\ RowOK(Decided(row, u, d))
           /\ Decided(row, u, d).requester = row.requester
           /\ Decided(row, u, d).required = row.required
           /\ Decided(row, u, d).status \in {"pending", "approved", "rejected"}
<1>. DEFINE votes == RecordVote(row.approvers, u, d)
            voted == [row EXCEPT !.approvers = votes]
            out == Decided(row, u, d)
<1>1. OneVoteEach(row.approvers) /\ ~HasRejection(row) /\ row.resolvedBy = NoUser
  BY DEF RowOK
<1>2. /\ votes \in Seq(Vote)
      /\ OneVoteEach(votes)
      /\ \E i \in DOMAIN votes : votes[i] = [user |-> u, decision |-> d]
      /\ \A i \in DOMAIN votes :
            \/ votes[i] = [user |-> u, decision |-> d]
            \/ i \in DOMAIN row.approvers /\ votes[i] = row.approvers[i]
  BY <1>1, RowFields, RecordVoteProperties
<1>3. /\ voted \in Row
      /\ voted.approvers = votes
      /\ voted.requester = row.requester
      /\ voted.required = row.required
      /\ voted.status = "pending"
      /\ voted.resolvedBy = NoUser
  BY <1>1, <1>2 DEF Row
<1>4. \A i \in DOMAIN votes : votes[i].user # row.requester
  BY <1>2 DEF RowOK
<1>5. CASE d = "rejected" \/ HasRejection(voted)
  <2>1. d = "rejected"
    BY <1>1, <1>2, <1>3, <1>5 DEF HasRejection
  <2>2. out = [voted EXCEPT !.status = "rejected", !.resolvedBy = u]
    BY <1>5 DEF Decided
  <2>3. /\ out.status = "rejected" /\ out.resolvedBy = u /\ out.approvers = votes
        /\ out.requester = row.requester /\ out.required = row.required
        /\ out \in Row
    BY <1>3, <2>2 DEF Row, Status, Resolved
  <2>4. VotedFor(out, u, "rejected")
    BY <1>2, <2>1, <2>3 DEF VotedFor
  <2>. QED  BY <1>2, <1>4, <2>3, <2>4 DEF RowOK
<1>6. CASE ~(d = "rejected" \/ HasRejection(voted)) /\ ApprovalCount(voted) >= voted.required
  <2>1. out = [voted EXCEPT !.status = "approved", !.resolvedBy = u]
    BY <1>6 DEF Decided
  <2>2. /\ out.status = "approved" /\ out.resolvedBy = u /\ out.approvers = votes
        /\ out.requester = row.requester /\ out.required = row.required
        /\ out \in Row
    BY <1>3, <2>1 DEF Row, Status, Resolved
  <2>3. ~HasRejection(out)
    BY <1>3, <1>6, <2>2 DEF HasRejection
  <2>4. Approvals(out) = Approvals(voted)
    BY <1>3, <2>2 DEF Approvals
  <2>5. ApprovalCount(out) >= out.required
    BY <1>3, <1>6, <2>2, <2>4 DEF ApprovalCount
  <2>6. VotedFor(out, u, "approved")
    BY <1>2, <1>6, <2>2 DEF VotedFor, Decision
  <2>. QED  BY <1>2, <1>4, <2>2, <2>3, <2>5, <2>6 DEF RowOK
<1>7. CASE ~(d = "rejected" \/ HasRejection(voted)) /\ ~(ApprovalCount(voted) >= voted.required)
  <2>1. out = voted
    BY <1>7 DEF Decided
  <2>. QED  BY <1>2, <1>3, <1>4, <1>7, <2>1 DEF RowOK, Decision
<1>. QED  BY <1>5, <1>6, <1>7

\* The row computed by Cancel satisfies the invariant of rows.
LEMMA CancelledOK ==
    ASSUME NEW row \in Row, RowOK(row)
    PROVE  /\ Cancelled(row) \in Row
           /\ RowOK(Cancelled(row))
           /\ Cancelled(row).requester = row.requester
           /\ Cancelled(row).required = row.required
           /\ Cancelled(row).status = "cancelled"
<1>1. /\ Cancelled(row) \in Row
      /\ Cancelled(row).approvers = row.approvers
      /\ Cancelled(row).requester = row.requester
      /\ Cancelled(row).required = row.required
      /\ Cancelled(row).status = "cancelled"
      /\ Cancelled(row).resolvedBy = row.requester
  BY DEF Cancelled, Row, Status, Resolved
<1>. QED  BY <1>1 DEF RowOK, Decision

\* A new request satisfies the invariant of rows.
LEMMA NewRowOK ==
    ASSUME ApprovalAssumption, clock \in 0..MaxTime, NEW u \in User, NEW n \in Required
    PROVE  /\ NewRow(u, n) \in Row
           /\ RowOK(NewRow(u, n))
           /\ NewRow(u, n).status = "pending"
<1>1. <<>> \in Seq(Vote) /\ DOMAIN <<>> = {}
  BY EmptySeq
<1>2. n \in Nat /\ clock + Expiry \in Nat
  BY DEF ApprovalAssumption
<1>3. NewRow(u, n) \in Row
  BY <1>1, <1>2 DEF NewRow, Row, Status
<1>4. RowOK(NewRow(u, n))
  BY <1>1 DEF NewRow, RowOK, OneVoteEach, HasRejection, Decision
<1>. QED  BY <1>3, <1>4 DEF NewRow

\* Writing back a copy that agrees with the row on the columns Update leaves
\* alone gives a row that is as good as the copy.
LEMMA WrittenOK ==
    ASSUME NEW stored \in Row, NEW row \in Row, RowOK(row),
           row.requester = stored.requester, row.required = stored.required
    PROVE  /\ Written(stored, row) \in Row
           /\ RowOK(Written(stored, row))
           /\ Written(stored, row).status = row.status
           /\ Written(stored, row).requester = stored.requester
           /\ Written(stored, row).required = stored.required
<1>. DEFINE out == Written(stored, row)
<1>1. /\ out \in Row
      /\ out.approvers = row.approvers
      /\ out.requester = row.requester
      /\ out.required = row.required
      /\ out.status = row.status
      /\ out.resolvedBy = row.resolvedBy
  BY DEF Written, Row
<1>2. Approvals(out) = Approvals(row) /\ (HasRejection(out) <=> HasRejection(row))
  BY <1>1 DEF Approvals, HasRejection
<1>. QED  BY <1>1, <1>2 DEF RowOK, ApprovalCount, VotedFor

\* The worker's change of a row keeps the invariant of rows.
LEMMA ExpiredOK ==
    ASSUME NEW row \in Row, RowOK(row), Overdue(row)
    PROVE  /\ [row EXCEPT !.status = "expired"] \in Row
           /\ RowOK([row EXCEPT !.status = "expired"])
<1>. DEFINE out == [row EXCEPT !.status = "expired"]
<1>1. /\ out \in Row
      /\ out.approvers = row.approvers
      /\ out.requester = row.requester
      /\ out.status = "expired"
      /\ out.resolvedBy = row.resolvedBy
  BY DEF Row, Status, Resolved
<1>. QED  BY <1>1 DEF RowOK, Overdue, Decision
-----------------------------------------------------------------------------
(* The inductive invariant.                                                *)

\* The initial state satisfies the invariant.
LEMMA InitIInv == ASSUME ApprovalAssumption, Init PROVE IInv
<1>1. TypeOK
  BY NoRowOK DEF Init, TypeOK, ApprovalAssumption
<1>. QED  BY <1>1, NoRowOK DEF Init, IInv

\* A goroutine that ends leaves well-typed state, and the others their copies.
LEMMA EndsOK ==
    ASSUME IInv, NEW h \in Handler, Ends(h)
    PROVE  /\ pc' \in [Handler -> {"idle", "send", "store", "update"}]
           /\ job' \in [Handler -> Req \cup {NoReq}]
           /\ mem' \in [Handler -> Row]
           /\ \A g \in Handler : RowOK(mem'[g])
           /\ \A g \in Handler : pc'[g] # "idle" =>
                 g # h /\ pc'[g] = pc[g] /\ job'[g] = job[g] /\ mem'[g] = mem[g]
  BY NoRowOK DEF IInv, TypeOK, Ends

\* Writing back a handler's copy keeps what the invariant says of the table,
\* and no row disappears or changes the columns Update does not write.
LEMMA WriteBackOK ==
    ASSUME IInv, NEW h \in Handler, pc[h] # "idle",
           db' = [db EXCEPT ![job[h]] = Written(db[job[h]], mem[h])]
    PROVE  /\ db' \in [Req -> Row]
           /\ \A r \in Req : RowOK(db'[r])
           /\ \A r \in Req : /\ db'[r].requester = db[r].requester
                             /\ db'[r].required = db[r].required
                             /\ db[r].status # "none" => db'[r].status # "none"
<1>1. job[h] \in Req /\ db[job[h]] \in Row /\ mem[h] \in Row /\ RowOK(mem[h])
  BY DEF IInv, TypeOK, CopyOK
<1>2. /\ mem[h].requester = db[job[h]].requester
      /\ mem[h].required = db[job[h]].required
      /\ mem[h].status # "none"
  <2>1. CopyOK(h)
    BY DEF IInv
  <2>2. pc[h] \in {"send", "store", "update"}
    BY DEF IInv, TypeOK
  <2>. QED  BY <2>1, <2>2 DEF CopyOK
<1>3. /\ Written(db[job[h]], mem[h]) \in Row
      /\ RowOK(Written(db[job[h]], mem[h]))
      /\ Written(db[job[h]], mem[h]).status # "none"
      /\ Written(db[job[h]], mem[h]).requester = db[job[h]].requester
      /\ Written(db[job[h]], mem[h]).required = db[job[h]].required
  BY <1>1, <1>2, WrittenOK
<1>. QED  BY <1>1, <1>3 DEF IInv, TypeOK

\* Every step keeps the invariant.
LEMMA NextIInv == ASSUME ApprovalAssumption, IInv, [Next]_vars PROVE IInv'
<1>. USE DEF IInv
<1>1. ASSUME NEW h \in Handler, NEW u \in User, NEW r \in Req, NEW n \in Required,
             Submit(h, u, r, n)
      PROVE  IInv'
  <2>1. /\ NewRow(u, n) \in Row
        /\ RowOK(NewRow(u, n))
        /\ NewRow(u, n).status = "pending"
    BY NewRowOK DEF TypeOK
  <2>2. TypeOK'
    BY <1>1, <2>1 DEF Submit, TypeOK
  <2>3. \A g \in Handler : pc'[g] # "idle" => CopyOK(g)'
    <3>1. \A g \in Handler \ {h} : pc[g] # "idle" => job[g] # r
      BY <1>1 DEF Submit, CopyOK
    <3>2. CopyOK(h)'
      BY <1>1, <2>1 DEF Submit, TypeOK, CopyOK
    <3>3. ASSUME NEW g \in Handler \ {h}, pc'[g] # "idle" PROVE CopyOK(g)'
      BY <1>1, <3>1, <3>3 DEF Submit, TypeOK, CopyOK
    <3>. QED  BY <3>2, <3>3
  <2>. QED  BY <1>1, <2>1, <2>2, <2>3 DEF Submit, TypeOK
<1>2. ASSUME NEW h \in Handler, NEW u \in User, NEW r \in Req, NEW d \in Decision,
             Decide(h, u, r, d)
      PROVE  IInv'
  <2>1. db[r] \in Row /\ RowOK(db[r]) /\ db[r].status = "pending" /\ u # db[r].requester
    BY <1>2 DEF Decide, Decidable, TypeOK
  <2>2. /\ Decided(db[r], u, d) \in Row
        /\ RowOK(Decided(db[r], u, d))
        /\ Decided(db[r], u, d).requester = db[r].requester
        /\ Decided(db[r], u, d).required = db[r].required
        /\ Decided(db[r], u, d).status \in {"pending", "approved", "rejected"}
    BY <2>1, DecidedOK
  <2>3. TypeOK'
    BY <1>2, <2>2 DEF Decide, Lock, TypeOK, ApprovalAssumption
  <2>4. \A g \in Handler : pc'[g] # "idle" => CopyOK(g)'
    BY <1>2, <2>1, <2>2 DEF Decide, TypeOK, CopyOK
  <2>. QED  BY <1>2, <2>2, <2>3, <2>4 DEF Decide, TypeOK
<1>3. ASSUME NEW h \in Handler, NEW u \in User, NEW r \in Req, Cancel(h, u, r)
      PROVE  IInv'
  <2>1. db[r] \in Row /\ RowOK(db[r]) /\ db[r].status = "pending"
    BY <1>3 DEF Cancel, TypeOK
  <2>2. /\ Cancelled(db[r]) \in Row
        /\ RowOK(Cancelled(db[r]))
        /\ Cancelled(db[r]).requester = db[r].requester
        /\ Cancelled(db[r]).required = db[r].required
        /\ Cancelled(db[r]).status = "cancelled"
    BY <2>1, CancelledOK
  <2>3. TypeOK'
    BY <1>3, <2>2 DEF Cancel, Lock, TypeOK, ApprovalAssumption
  <2>4. \A g \in Handler : pc'[g] # "idle" => CopyOK(g)'
    BY <1>3, <2>1, <2>2 DEF Cancel, TypeOK, CopyOK
  <2>. QED  BY <1>3, <2>2, <2>3, <2>4 DEF Cancel, TypeOK
<1>4. ASSUME NEW h \in Handler, Send(h) PROVE IInv'
  <2>1. job[h] \in Req /\ CopyOK(h)
    BY <1>4 DEF Send, CopyOK
  <2>2. CASE /\ posted' = posted \cup {job[h]}
             /\ pc' = [pc EXCEPT ![h] = "store"]
             /\ mem' = [mem EXCEPT ![h].message = TRUE]
             /\ UNCHANGED job
    <3>1. /\ mem'[h] \in Row
          /\ mem'[h].requester = mem[h].requester
          /\ mem'[h].required = mem[h].required
          /\ mem'[h].status = mem[h].status
          /\ mem'[h].approvers = mem[h].approvers
          /\ mem'[h].resolvedBy = mem[h].resolvedBy
      <4>1. mem[h] \in Row /\ mem'[h] = [mem[h] EXCEPT !.message = TRUE]
        BY <2>2 DEF TypeOK
      <4>. QED  BY <4>1 DEF Row
    <3>2. RowOK(mem'[h])
      BY <3>1 DEF RowOK, HasRejection, ApprovalCount, Approvals, VotedFor
    <3>3. TypeOK'
      BY <1>4, <2>1, <2>2, <3>1 DEF Send, TypeOK
    <3>4. \A g \in Handler : pc'[g] # "idle" => CopyOK(g)'
      BY <1>4, <2>1, <2>2, <3>1 DEF Send, TypeOK, CopyOK
    <3>. QED  BY <1>4, <2>2, <3>2, <3>3, <3>4 DEF Send, TypeOK
  <2>3. CASE posted' \in {posted, posted \cup {job[h]}} /\ Ends(h)
    <3>1. TypeOK'
      BY <1>4, <2>1, <2>3, EndsOK DEF Send, TypeOK
    <3>2. \A g \in Handler : pc'[g] # "idle" => CopyOK(g)'
      BY <1>4, <2>3, EndsOK DEF Send, CopyOK
    <3>. QED  BY <1>4, <2>3, <3>1, <3>2, EndsOK DEF Send
  <2>. QED  BY <1>4, <2>2, <2>3 DEF Send
<1>5. ASSUME NEW h \in Handler, StoreMessage(h) PROVE IInv'
  <2>1. /\ db' \in [Req -> Row]
        /\ \A r \in Req : RowOK(db'[r])
        /\ \A r \in Req : /\ db'[r].requester = db[r].requester
                          /\ db'[r].required = db[r].required
                          /\ db[r].status # "none" => db'[r].status # "none"
    BY <1>5, WriteBackOK DEF StoreMessage, Update, TypeOK
  <2>2. TypeOK'
    BY <1>5, <2>1, EndsOK DEF StoreMessage, TypeOK
  <2>3. \A g \in Handler : pc'[g] # "idle" => CopyOK(g)'
    BY <1>5, <2>1, EndsOK DEF StoreMessage, CopyOK
  <2>. QED  BY <1>5, <2>1, <2>2, <2>3, EndsOK DEF StoreMessage
<1>6. ASSUME NEW h \in Handler, Finish(h) PROVE IInv'
  <2>1. /\ db' \in [Req -> Row]
        /\ \A r \in Req : RowOK(db'[r])
        /\ \A r \in Req : /\ db'[r].requester = db[r].requester
                          /\ db'[r].required = db[r].required
                          /\ db[r].status # "none" => db'[r].status # "none"
    BY <1>6, WriteBackOK DEF Finish, Update, TypeOK
  <2>2. signals' \in [Req -> Nat]
    BY <1>6 DEF Finish, TypeOK
  <2>3. TypeOK'
    BY <1>6, <2>1, <2>2, EndsOK DEF Finish, Unlock, TypeOK
  <2>4. \A g \in Handler : pc'[g] # "idle" => CopyOK(g)'
    BY <1>6, <2>1, EndsOK DEF Finish, CopyOK
  <2>. QED  BY <1>6, <2>1, <2>3, <2>4, EndsOK DEF Finish
<1>7. ASSUME NEW p \in Replica, Restart(p) PROVE IInv'
  <2>1. /\ pc' \in [Handler -> {"idle", "send", "store", "update"}]
        /\ job' \in [Handler -> Req \cup {NoReq}]
        /\ mem' \in [Handler -> Row]
        /\ \A g \in Handler : RowOK(mem'[g])
        /\ \A g \in Handler : pc'[g] # "idle" =>
              pc'[g] = pc[g] /\ job'[g] = job[g] /\ mem'[g] = mem[g]
    BY <1>7, NoRowOK DEF Restart, TypeOK
  <2>2. TypeOK'
    BY <1>7, <2>1 DEF Restart, TypeOK
  <2>3. \A g \in Handler : pc'[g] # "idle" => CopyOK(g)'
    BY <1>7, <2>1 DEF Restart, CopyOK
  <2>. QED  BY <1>7, <2>1, <2>2, <2>3 DEF Restart
<1>8. CASE ExpireOld
  <2>1. \A r \in Req : /\ db'[r] \in Row
                       /\ RowOK(db'[r])
                       /\ db'[r].requester = db[r].requester
                       /\ db'[r].required = db[r].required
                       /\ db[r].status # "none" => db'[r].status # "none"
    <3>. SUFFICES ASSUME NEW r \in Req
                  PROVE  /\ db'[r] \in Row
                         /\ RowOK(db'[r])
                         /\ db'[r].requester = db[r].requester
                         /\ db'[r].required = db[r].required
                         /\ db[r].status # "none" => db'[r].status # "none"
      OBVIOUS
    <3>1. db[r] \in Row /\ RowOK(db[r])
      BY DEF TypeOK
    <3>2. CASE Overdue(db[r])
      <4>1. db'[r] = [db[r] EXCEPT !.status = "expired"]
        BY <1>8, <3>2 DEF ExpireOld
      <4>. QED  BY <3>1, <3>2, <4>1, ExpiredOK DEF Row
    <3>3. CASE ~Overdue(db[r])
      BY <1>8, <3>1, <3>3 DEF ExpireOld
    <3>. QED  BY <3>2, <3>3
  <2>2. db' \in [Req -> Row]
    BY <1>8, <2>1 DEF ExpireOld
  <2>3. TypeOK'
    BY <1>8, <2>2 DEF ExpireOld, TypeOK
  <2>4. \A g \in Handler : pc'[g] # "idle" => CopyOK(g)'
    BY <1>8, <2>1 DEF ExpireOld, CopyOK
  <2>. QED  BY <1>8, <2>1, <2>3, <2>4 DEF ExpireOld
<1>9. CASE Tick
  <2>1. TypeOK'
    BY <1>9 DEF Tick, TypeOK, ApprovalAssumption
  <2>. QED  BY <1>9, <2>1 DEF Tick, CopyOK
<1>10. CASE UNCHANGED vars
  BY <1>10 DEF vars, TypeOK, CopyOK
<1>. QED  BY <1>1, <1>2, <1>3, <1>4, <1>5, <1>6, <1>7, <1>8, <1>9, <1>10 DEF Next

\* The strengthened invariant holds of every reachable state.
THEOREM IInvariant == ApprovalAssumption /\ Spec => []IInv
<1>. SUFFICES ASSUME ApprovalAssumption PROVE Spec => []IInv
  OBVIOUS
<1>1. Init => IInv
  BY InitIInv
<1>2. IInv /\ [Next]_vars => IInv'
  BY NextIInv
<1>. QED  BY <1>1, <1>2, PTL DEF Spec
-----------------------------------------------------------------------------
(* What the invariant says of the table.                                   *)

\* One entry per user makes the number of approving entries the number of
\* approving people: the map from an entry to its user is a bijection.
LEMMA CountIsPeople ==
    ASSUME NEW row \in Row, OneVoteEach(row.approvers),
           \A i \in DOMAIN row.approvers : row.approvers[i].user # row.requester
    PROVE  Cardinality(Backers(row)) = ApprovalCount(row)
<1>. DEFINE S == Approvals(row)
            T == Backers(row)
            f == [i \in S |-> row.approvers[i].user]
<1>1. /\ Len(row.approvers) \in Nat
      /\ DOMAIN row.approvers = 1..Len(row.approvers)
      /\ \A i \in DOMAIN row.approvers : row.approvers[i] \in Vote
  BY RowFields, LenProperties, ElementOfSeq
<1>2. IsFiniteSet(S)
  <2>1. IsFiniteSet(1..Len(row.approvers))
    BY <1>1, FS_Interval
  <2>2. S \in SUBSET (1..Len(row.approvers))
    BY <1>1 DEF Approvals
  <2>. QED  BY <2>1, <2>2, FS_Subset
<1>3. \A i \in S : /\ i \in DOMAIN row.approvers
                   /\ row.approvers[i].user \in User \ {row.requester}
                   /\ row.approvers[i] = [user |-> row.approvers[i].user, decision |-> "approved"]
  BY <1>1 DEF Approvals, Vote
<1>4. f \in [S -> T]
  BY <1>3 DEF Backers
<1>5. \A t \in T : \E i \in S : f[i] = t
  BY DEF Backers, Approvals
<1>6. \A i, j \in S : f[i] = f[j] => i = j
  BY <1>3 DEF OneVoteEach
<1>7. f \in Bijection(S, T)
  BY <1>4, <1>5, <1>6, Fun_IsBij
<1>8. ExistsBijection(S, T)
  BY <1>7 DEF ExistsBijection
<1>. QED  BY <1>2, <1>8, FS_Bijection DEF ApprovalCount

\* Every approved row is backed by the required number of different people,
\* none of them the requester, and by nobody's rejection: for any number of
\* users, requests, handlers, replicas and restarts.
THEOREM QuorumTheorem == ApprovalAssumption /\ Spec => []QuorumBacked
<1>1. IInv => QuorumBacked
  <2>. SUFFICES ASSUME IInv, NEW r \in Req, db[r].status = "approved"
                PROVE  /\ Cardinality(Backers(db[r])) >= db[r].required
                       /\ Backers(db[r]) # {}
                       /\ ~HasRejection(db[r])
    BY DEF QuorumBacked
  <2>1. db[r] \in Row /\ RowOK(db[r])
    BY DEF IInv, TypeOK
  <2>2. Cardinality(Backers(db[r])) = ApprovalCount(db[r])
    BY <2>1, CountIsPeople DEF RowOK
  <2>3. ApprovalCount(db[r]) >= db[r].required /\ ~HasRejection(db[r])
    BY <2>1 DEF RowOK
  <2>4. Backers(db[r]) # {}
    <3>1. PICK i \in DOMAIN db[r].approvers :
               db[r].approvers[i] = [user |-> db[r].resolvedBy, decision |-> "approved"]
      BY <2>1 DEF RowOK, VotedFor, Decision
    <3>2. db[r].approvers[i] \in Vote
      BY <2>1, <3>1, RowFields, LenProperties, ElementOfSeq
    <3>3. db[r].resolvedBy \in User \ {db[r].requester}
      BY <2>1, <3>1, <3>2 DEF Vote, RowOK
    <3>. QED  BY <3>1, <3>3 DEF Backers
  <2>. QED  BY <2>2, <2>3, <2>4
<1>. QED  BY <1>1, IInvariant, PTL

\* resolved_by names the person whose action the status shows.
THEOREM ResolverTheorem == ApprovalAssumption /\ Spec => []ResolverAccountable
<1>1. IInv => ResolverAccountable
  BY DEF IInv, RowOK, ResolverAccountable, VotedFor
<1>. QED  BY <1>1, IInvariant, PTL

\* Every reachable state is well typed.
THEOREM TypeTheorem == ApprovalAssumption /\ Spec => []TypeOK
<1>1. IInv => TypeOK
  BY DEF IInv
<1>. QED  BY <1>1, IInvariant, PTL
-----------------------------------------------------------------------------
(* Decisions are final in one process.                                     *)

\* A written row shows the status of the copy that was written.
LEMMA WrittenStatus ==
    ASSUME NEW stored \in Row, NEW row \in Row
    PROVE  Written(stored, row).status = row.status
BY DEF Written, Row

OneProcess == \A p, q \in Replica : p = q

\* The mutex: a handler between its read and its write holds it, and until
\* the write nobody else's decision can be in the row it read.
MutexInv ==
    \A h \in Handler : pc[h] = "update" =>
        /\ mu[Host[h]] = h
        /\ db[job[h]].status \in {"pending", "expired"}

\* With one process every step keeps the mutex invariant.
LEMMA NextMutexInv ==
    ASSUME ApprovalAssumption, OneProcess, IInv, MutexInv, [Next]_vars
    PROVE  MutexInv'
<1>. USE DEF MutexInv
<1>0. /\ \A h \in Handler : Host[h] \in Replica
      /\ \A g, h \in Handler : Host[g] = Host[h]
      /\ \A h \in Handler : pc[h] = "update" => job[h] \in Req
  BY DEF ApprovalAssumption, OneProcess, IInv, CopyOK
<1>1. ASSUME NEW h \in Handler, NEW u \in User, NEW r \in Req, NEW n \in Required,
             Submit(h, u, r, n)
      PROVE  MutexInv'
  BY <1>0, <1>1 DEF Submit, NewRow, IInv, TypeOK
<1>2. ASSUME NEW h \in Handler, NEW u \in User, NEW r \in Req, NEW d \in Decision,
             Decide(h, u, r, d)
      PROVE  MutexInv'
  <2>1. \A g \in Handler : pc[g] # "update"
    BY <1>0, <1>2, SMT DEF Decide, Lock, ApprovalAssumption
  <2>. QED  BY <1>0, <1>2, <2>1 DEF Decide, Lock, Decidable, IInv, TypeOK
<1>3. ASSUME NEW h \in Handler, NEW u \in User, NEW r \in Req, Cancel(h, u, r)
      PROVE  MutexInv'
  <2>1. \A g \in Handler : pc[g] # "update"
    BY <1>0, <1>3, SMT DEF Cancel, Lock, ApprovalAssumption
  <2>. QED  BY <1>0, <1>3, <2>1 DEF Cancel, Lock, IInv, TypeOK
<1>4. ASSUME NEW h \in Handler, Send(h) PROVE MutexInv'
  BY <1>0, <1>4 DEF Send, Ends, IInv, TypeOK
<1>5. ASSUME NEW h \in Handler, StoreMessage(h) PROVE MutexInv'
  <2>1. mem[h].status = "pending" /\ job[h] \in Req
    BY <1>5 DEF StoreMessage, IInv, CopyOK
  <2>2. \A r \in Req : db'[r].status = db[r].status \/ db'[r].status = "pending"
    <3>1. Written(db[job[h]], mem[h]).status = "pending"
      BY <2>1, WrittenStatus DEF IInv, TypeOK
    <3>2. CASE db' = [db EXCEPT ![job[h]] = Written(db[job[h]], mem[h])]
      BY <3>1, <3>2 DEF IInv, TypeOK
    <3>3. CASE UNCHANGED db
      BY <3>3
    <3>. QED  BY <1>5, <3>2, <3>3 DEF StoreMessage, Update
  <2>3. \A g \in Handler : pc'[g] = "update" =>
           pc[g] = "update" /\ job'[g] = job[g] /\ mu'[Host[g]] = mu[Host[g]]
    BY <1>5 DEF StoreMessage, Ends, IInv, TypeOK
  <2>. QED  BY <1>0, <2>2, <2>3
<1>6. ASSUME NEW h \in Handler, Finish(h) PROVE MutexInv'
  <2>1. \A g \in Handler : g # h => pc[g] # "update"
    BY <1>0, <1>6 DEF Finish
  <2>2. \A g \in Handler : pc'[g] # "update"
    BY <1>6, <2>1 DEF Finish, Ends, IInv, TypeOK
  <2>. QED  BY <2>2
<1>7. ASSUME NEW p \in Replica, Restart(p) PROVE MutexInv'
  <2>1. \A h \in Handler : pc'[h] # "update"
    BY <1>0, <1>7 DEF Restart, OneProcess
  <2>. QED  BY <2>1
<1>8. CASE ExpireOld
  BY <1>0, <1>8 DEF ExpireOld, IInv, TypeOK
<1>9. CASE Tick
  BY <1>9 DEF Tick
<1>10. CASE UNCHANGED vars
  BY <1>10 DEF vars
<1>. QED  BY <1>1, <1>2, <1>3, <1>4, <1>5, <1>6, <1>7, <1>8, <1>9, <1>10 DEF Next

\* In one process, an approved, rejected or cancelled request changes its
\* status only by the submitting handler's late write of its pending copy.
THEOREM FinalTheorem ==
    ApprovalAssumption /\ OneProcess /\ Spec => DecisionsFinal
<1>. SUFFICES ASSUME ApprovalAssumption, OneProcess PROVE Spec => DecisionsFinal
  OBVIOUS
<1>. DEFINE Final ==
              \A r \in Req :
                 /\ db[r].status \in {"approved", "rejected", "cancelled"}
                 /\ db'[r].status # db[r].status
                 => \E h \in Handler : pc[h] = "store" /\ job[h] = r /\ db'[r].status = "pending"
<1>1. Init => MutexInv
  BY DEF Init, MutexInv
<1>2. IInv /\ MutexInv /\ [Next]_vars => MutexInv'
  BY NextMutexInv
<1>3. IInv /\ MutexInv /\ [Next]_vars => [Final]_vars
  <2>. SUFFICES ASSUME IInv, MutexInv, Next, NEW r \in Req,
                       db[r].status \in {"approved", "rejected", "cancelled"},
                       db'[r].status # db[r].status
                PROVE  \E h \in Handler : pc[h] = "store" /\ job[h] = r /\ db'[r].status = "pending"
    OBVIOUS
  <2>. USE DEF IInv, TypeOK
  <2>1. ASSUME NEW h \in Handler, NEW u \in User, NEW x \in Req, NEW n \in Required,
               Submit(h, u, x, n)
        PROVE  FALSE
    BY <2>1 DEF Submit
  <2>2. ASSUME NEW h \in Handler, StoreMessage(h)
        PROVE  pc[h] = "store" /\ job[h] = r /\ db'[r].status = "pending"
    <3>1. job[h] \in Req /\ mem[h].status = "pending" /\ pc[h] = "store"
      BY <2>2 DEF StoreMessage, CopyOK
    <3>2. Written(db[job[h]], mem[h]).status = "pending"
      BY <3>1, WrittenStatus
    <3>3. db' # db
      OBVIOUS
    <3>4. db' = [db EXCEPT ![job[h]] = Written(db[job[h]], mem[h])]
      BY <2>2, <3>3 DEF StoreMessage, Update
    <3>. QED  BY <3>1, <3>2, <3>4
  <2>3. ASSUME NEW h \in Handler, Finish(h) PROVE FALSE
    <3>1. job[h] # r
      BY <2>3 DEF Finish, MutexInv
    <3>. QED  BY <2>3, <3>1 DEF Finish, Update
  <2>4. ~ExpireOld
    BY DEF ExpireOld, Overdue
  <2>5. db' # db
    OBVIOUS
  <2>. QED  BY <2>1, <2>2, <2>3, <2>4, <2>5 DEF Next, Decide, Cancel, Send, Restart, Tick
<1>. QED  BY <1>1, <1>2, <1>3, IInvariant, PTL DEF Spec, DecisionsFinal
-----------------------------------------------------------------------------
(* A request is signalled for execution twice at most, in one process.     *)

Settled(row) == row.status \in {"approved", "rejected", "cancelled"}

\* The handler that submitted r has its copy still and may write it back.
Late(r) == \E h \in Handler : pc[h] \in {"send", "store"} /\ job[h] = r

\* In one process Decide signals the execution of a request twice at most: once more
\* than it should, when the message id is stored after the first decision (Decide,
\* checker.go's write of the copy it made before the message was sent).
TwiceAtMost == \A r \in Req : signals[r] <= 2

\* Each request is submitted by one handler; it has as many signals to come as
\* there are late writes that reopen it, and one if it is open.
SignalsInv ==
    /\ \A g, h \in Handler :
          pc[g] \in {"send", "store"} /\ pc[h] \in {"send", "store"} /\ job[g] = job[h] => g = h
    /\ \A r \in Req :
          /\ db[r].status = "none" => signals[r] = 0
          /\ Late(r) /\ ~Settled(db[r]) => signals[r] = 0
          /\ Late(r) \/ ~Settled(db[r]) => signals[r] <= 1
          /\ signals[r] <= 2

\* A row that does not become open, and no late write anew: the account holds.
LEMMA AccountKept ==
    ASSUME IInv, SignalsInv, UNCHANGED signals,
           \A g \in Handler : pc'[g] \in {"send", "store"} =>
                pc[g] \in {"send", "store"} /\ job'[g] = job[g],
           \A r \in Req : /\ db'[r].status = "none" => db[r].status = "none"
                          /\ Settled(db[r]) => Settled(db'[r])
    PROVE  SignalsInv'
<1>1. \A r \in Req : Late(r)' => Late(r)
  BY DEF Late
<1>2. \A g, h \in Handler :
          pc'[g] \in {"send", "store"} /\ pc'[h] \in {"send", "store"} /\ job'[g] = job'[h] => g = h
  BY DEF SignalsInv
<1>3. ASSUME NEW r \in Req
      PROVE  /\ db'[r].status = "none" => signals'[r] = 0
             /\ Late(r)' /\ ~Settled(db'[r]) => signals'[r] = 0
             /\ Late(r)' \/ ~Settled(db'[r]) => signals'[r] <= 1
             /\ signals'[r] <= 2
  <2>1. signals'[r] = signals[r] /\ (Late(r)' => Late(r))
    BY <1>1
  <2>2. /\ db[r].status = "none" => signals[r] = 0
        /\ Late(r) /\ ~Settled(db[r]) => signals[r] = 0
        /\ Late(r) \/ ~Settled(db[r]) => signals[r] <= 1
        /\ signals[r] <= 2
    BY DEF SignalsInv
  <2>3. /\ db'[r].status = "none" => db[r].status = "none"
        /\ ~Settled(db'[r]) => ~Settled(db[r])
    OBVIOUS
  <2>. QED  BY <2>1, <2>2, <2>3, Zenon
<1>. QED  BY <1>2, <1>3 DEF SignalsInv

LEMMA NextSignalsInv ==
    ASSUME ApprovalAssumption, IInv, MutexInv, SignalsInv, [Next]_vars
    PROVE  SignalsInv'
<1>. USE DEF IInv, TypeOK, Settled
<1>1. ASSUME NEW h \in Handler, NEW u \in User, NEW x \in Req, NEW n \in Required,
             Submit(h, u, x, n)
      PROVE  SignalsInv'
  <2>1. /\ db[x].status = "none" /\ db' = [db EXCEPT ![x] = NewRow(u, n)] /\ signals' = signals
        /\ pc' = [pc EXCEPT ![h] = "send"] /\ job' = [job EXCEPT ![h] = x]
        /\ NewRow(u, n).status = "pending"
    BY <1>1 DEF Submit, NewRow
  <2>2. ~Late(x) /\ signals[x] = 0
    BY <2>1 DEF Late, CopyOK, SignalsInv
  <2>3. \A g \in Handler : pc'[g] \in {"send", "store"} =>
            \/ g = h /\ job'[g] = x
            \/ g # h /\ pc[g] \in {"send", "store"} /\ job'[g] = job[g] /\ job[g] # x
    BY <2>1, <2>2 DEF Late
  <2>4. \A r \in Req : r # x => db'[r] = db[r] /\ (Late(r)' => Late(r))
    BY <2>1, <2>3 DEF Late
  <2>5. \A g, k \in Handler :
            pc'[g] \in {"send", "store"} /\ pc'[k] \in {"send", "store"} /\ job'[g] = job'[k] => g = k
    BY <2>3 DEF SignalsInv
  <2>6. ASSUME NEW r \in Req
        PROVE  /\ db'[r].status = "none" => signals'[r] = 0
               /\ Late(r)' /\ ~Settled(db'[r]) => signals'[r] = 0
               /\ Late(r)' \/ ~Settled(db'[r]) => signals'[r] <= 1
               /\ signals'[r] <= 2
    <3>1. CASE r = x
      BY <2>1, <2>2, <3>1
    <3>2. CASE r # x
      BY <2>1, <2>4, <3>2 DEF SignalsInv
    <3>. QED  BY <3>1, <3>2
  <2>. QED  BY <2>5, <2>6 DEF SignalsInv
<1>2. ASSUME NEW h \in Handler, NEW u \in User, NEW x \in Req,
             (\E d \in Decision : Decide(h, u, x, d)) \/ Cancel(h, u, x)
      PROVE  SignalsInv'
  <2>1. UNCHANGED <<db, signals>> /\ \A g \in Handler : pc'[g] \in {"send", "store"} =>
            pc[g] \in {"send", "store"} /\ job'[g] = job[g]
    BY <1>2 DEF Decide, Cancel
  <2>. QED  BY <2>1, AccountKept
<1>3. ASSUME NEW h \in Handler, Send(h) PROVE SignalsInv'
  <2>1. UNCHANGED <<db, signals>> /\ \A g \in Handler : pc'[g] \in {"send", "store"} =>
            pc[g] \in {"send", "store"} /\ job'[g] = job[g]
    BY <1>3 DEF Send, Ends
  <2>. QED  BY <2>1, AccountKept
<1>4. ASSUME NEW h \in Handler, StoreMessage(h) PROVE SignalsInv'
  <2>1. /\ pc[h] = "store" /\ job[h] \in Req /\ mem[h].status = "pending" /\ signals' = signals
        /\ pc' = [pc EXCEPT ![h] = "idle"] /\ job' = [job EXCEPT ![h] = NoReq]
        /\ db' = db \/ db' = [db EXCEPT ![job[h]] = Written(db[job[h]], mem[h])]
    BY <1>4 DEF StoreMessage, Update, Ends, CopyOK
  <2>2. PICK x \in Req : x = job[h]
    BY <2>1
  <2>3. \A g \in Handler : pc'[g] \in {"send", "store"} =>
            g # h /\ pc[g] \in {"send", "store"} /\ job'[g] = job[g] /\ job[g] # x
    BY <2>1, <2>2 DEF SignalsInv
  <2>4. Late(x) /\ ~Late(x)' /\ \A r \in Req : Late(r)' => Late(r)
    BY <2>1, <2>2, <2>3 DEF Late
  <2>5. db[x].status # "none" /\ \A r \in Req : r # x => db'[r] = db[r]
    BY <1>4, <2>1, <2>2 DEF CopyOK
  <2>6. db'[x].status # "none"
    BY <2>1, <2>2, <2>5, WrittenStatus
  <2>7. ASSUME NEW r \in Req
        PROVE  /\ db'[r].status = "none" => signals'[r] = 0
               /\ Late(r)' /\ ~Settled(db'[r]) => signals'[r] = 0
               /\ Late(r)' \/ ~Settled(db'[r]) => signals'[r] <= 1
               /\ signals'[r] <= 2
    <3>1. CASE r = x
      <4>1. signals[x] <= 1
        BY <2>4 DEF SignalsInv
      <4>. QED  BY <2>1, <2>4, <2>6, <3>1, <4>1
    <3>2. CASE r # x
      BY <2>1, <2>4, <2>5, <3>2 DEF SignalsInv
    <3>. QED  BY <3>1, <3>2
  <2>. QED  BY <2>3, <2>7 DEF SignalsInv
<1>5. ASSUME NEW h \in Handler, Finish(h) PROVE SignalsInv'
  <2>1. /\ pc[h] = "update" /\ job[h] \in Req /\ ~Settled(db[job[h]])
        /\ db[job[h]].status # "none" /\ mem[h].status # "none"
        /\ pc' = [pc EXCEPT ![h] = "idle"] /\ job' = [job EXCEPT ![h] = NoReq]
    BY <1>5 DEF Finish, Ends, CopyOK, MutexInv
  <2>2. PICK x \in Req : x = job[h]
    BY <2>1
  <2>3. \A g \in Handler : pc'[g] \in {"send", "store"} =>
            pc[g] \in {"send", "store"} /\ job'[g] = job[g]
    BY <2>1
  <2>4. CASE signals' = signals
    <3>1. db' = db \/ db' = [db EXCEPT ![x] = Written(db[x], mem[h])]
      BY <1>5, <2>2 DEF Finish, Update
    <3>2. \A r \in Req : /\ db'[r].status = "none" => db[r].status = "none"
                         /\ Settled(db[r]) => Settled(db'[r])
      <4>. SUFFICES ASSUME NEW r \in Req
                    PROVE  /\ db'[r].status = "none" => db[r].status = "none"
                           /\ Settled(db[r]) => Settled(db'[r])
        OBVIOUS
      <4>1. Written(db[x], mem[h]).status # "none" /\ ~Settled(db[x])
        BY <2>1, <2>2, WrittenStatus
      <4>2. CASE r = x
        <5>1. db' = db \/ db'[x] = Written(db[x], mem[h])
          BY <3>1
        <5>. QED  BY <4>1, <4>2, <5>1
      <4>3. CASE r # x
        BY <3>1, <4>3
      <4>. QED  BY <4>2, <4>3
    <3>. QED  BY <2>3, <2>4, <3>2, AccountKept
  <2>5. CASE signals' # signals
    <3>1. /\ db' = [db EXCEPT ![x] = Written(db[x], mem[h])] /\ mem[h].status = "approved"
          /\ signals' = [signals EXCEPT ![x] = signals[x] + 1]
      BY <1>5, <2>2, <2>5 DEF Finish
    <3>2. Settled(db'[x]) /\ db'[x].status # "none" /\ \A r \in Req : r # x => db'[r] = db[r]
      BY <3>1, WrittenStatus
    <3>3. \A r \in Req : Late(r)' => Late(r)
      BY <2>3 DEF Late
    <3>4. ASSUME NEW r \in Req
          PROVE  /\ db'[r].status = "none" => signals'[r] = 0
                 /\ Late(r)' /\ ~Settled(db'[r]) => signals'[r] = 0
                 /\ Late(r)' \/ ~Settled(db'[r]) => signals'[r] <= 1
                 /\ signals'[r] <= 2
      <4>1. CASE r = x
        <5>1. signals[x] <= 1 /\ (Late(x) => signals[x] = 0) /\ signals[x] \in Nat
          BY <2>1, <2>2 DEF SignalsInv
        <5>. QED  BY <3>1, <3>2, <3>3, <4>1, <5>1
      <4>2. CASE r # x
        BY <3>1, <3>2, <3>3, <4>2 DEF SignalsInv
      <4>. QED  BY <4>1, <4>2
    <3>. QED  BY <2>3, <3>4 DEF SignalsInv
  <2>. QED  BY <2>4, <2>5
<1>6. ASSUME NEW p \in Replica, Restart(p) PROVE SignalsInv'
  <2>1. UNCHANGED <<db, signals>> /\ \A g \in Handler : pc'[g] \in {"send", "store"} =>
            pc[g] \in {"send", "store"} /\ job'[g] = job[g]
    BY <1>6 DEF Restart
  <2>. QED  BY <2>1, AccountKept
<1>7. CASE ExpireOld
  <2>1. \A r \in Req : \/ db'[r].status = db[r].status
                       \/ db[r].status = "pending" /\ db'[r].status = "expired"
    <3>. SUFFICES ASSUME NEW r \in Req
                  PROVE  \/ db'[r].status = db[r].status
                         \/ db[r].status = "pending" /\ db'[r].status = "expired"
      OBVIOUS
    <3>1. db[r] \in Row
      OBVIOUS
    <3>2. [db[r] EXCEPT !.status = "expired"].status = "expired"
      BY <3>1 DEF Row
    <3>3. db'[r] = IF Overdue(db[r]) THEN [db[r] EXCEPT !.status = "expired"] ELSE db[r]
      BY <1>7 DEF ExpireOld
    <3>. QED  BY <3>2, <3>3 DEF Overdue
  <2>2. UNCHANGED <<pc, job, signals>>
    BY <1>7 DEF ExpireOld
  <2>. QED  BY <2>1, <2>2, AccountKept
<1>8. CASE Tick \/ UNCHANGED vars
  BY <1>8, AccountKept DEF Tick, vars
<1>. QED  BY <1>1, <1>2, <1>3, <1>4, <1>5, <1>6, <1>7, <1>8 DEF Next

\* In one process a request is signalled for execution twice at most.
THEOREM TwiceTheorem == ApprovalAssumption /\ OneProcess /\ Spec => []TwiceAtMost
<1>. SUFFICES ASSUME ApprovalAssumption, OneProcess PROVE Spec => []TwiceAtMost
  OBVIOUS
<1>1. Init => MutexInv /\ SignalsInv
  BY DEF Init, MutexInv, SignalsInv, Late, Settled, NoRow
<1>2. IInv /\ MutexInv /\ [Next]_vars => MutexInv'
  BY NextMutexInv
<1>3. IInv /\ MutexInv /\ SignalsInv /\ [Next]_vars => SignalsInv'
  BY NextSignalsInv
<1>4. SignalsInv => TwiceAtMost
  BY DEF SignalsInv, TwiceAtMost
<1>. QED  BY <1>1, <1>2, <1>3, <1>4, IInvariant, PTL DEF Spec
-----------------------------------------------------------------------------
(* What the mutexes of several processes keep of DecisionsFinal.           *)

\* A mutex is held by a goroutine of its own process that is about to write its copy.
LockInv ==
    /\ \A h \in Handler : pc[h] = "update" => mu[Host[h]] = h
    /\ \A p \in Replica : mu[p] # NoHandler =>
          mu[p] \in Handler /\ Host[mu[p]] = p /\ pc[mu[p]] = "update"

\* Every step of any goroutine keeps the mutexes.
LEMMA NextLockInv ==
    ASSUME ApprovalAssumption, IInv, LockInv, [Next]_vars
    PROVE  LockInv'
<1>. USE DEF IInv, TypeOK, LockInv
<1>0. Host \in [Handler -> Replica] /\ NoHandler \notin Handler
  BY DEF ApprovalAssumption
<1>1. ASSUME NEW h \in Handler, pc[h] = "idle", Lock(h), pc' = [pc EXCEPT ![h] = "update"]
      PROVE  LockInv'
  BY <1>0, <1>1, SMTT(20) DEF Lock
<1>2. ASSUME NEW h \in Handler, NEW u \in User, NEW x \in Req, NEW n \in Required,
             Submit(h, u, x, n)
      PROVE  LockInv'
  BY <1>0, <1>2, SMTT(20) DEF Submit
<1>3. ASSUME NEW h \in Handler, NEW u \in User, NEW x \in Req,
             (\E d \in Decision : Decide(h, u, x, d)) \/ Cancel(h, u, x)
      PROVE  LockInv'
  <2>1. pc[h] = "idle" /\ Lock(h) /\ pc' = [pc EXCEPT ![h] = "update"]
    BY <1>3 DEF Decide, Cancel
  <2>. QED  BY <1>1, <2>1
<1>4. ASSUME NEW h \in Handler, Send(h) \/ StoreMessage(h) PROVE LockInv'
  <2>1. /\ pc[h] \in {"send", "store"} /\ UNCHANGED mu
        /\ pc' = [pc EXCEPT ![h] = "store"] \/ pc' = [pc EXCEPT ![h] = "idle"]
    BY <1>4 DEF Send, StoreMessage, Ends
  <2>. QED  BY <1>0, <2>1, SMTT(20)
<1>5. ASSUME NEW h \in Handler, Finish(h) PROVE LockInv'
  <2>1. /\ pc[h] = "update" /\ mu' = [mu EXCEPT ![Host[h]] = NoHandler]
        /\ pc' = [pc EXCEPT ![h] = "idle"]
    BY <1>5 DEF Finish, Unlock, Ends
  <2>. QED  BY <1>0, <2>1, SMTT(20)
<1>6. ASSUME NEW p \in Replica, Restart(p) PROVE LockInv'
  <2>1. /\ mu' = [mu EXCEPT ![p] = NoHandler]
        /\ \A h \in Handler : pc'[h] = IF Host[h] = p THEN "idle" ELSE pc[h]
    BY <1>6 DEF Restart
  <2>. QED  BY <1>0, <2>1, SMTT(20)
<1>7. CASE ExpireOld \/ Tick \/ UNCHANGED vars
  BY <1>7 DEF ExpireOld, Tick, vars
<1>. QED  BY <1>2, <1>3, <1>4, <1>5, <1>6, <1>7 DEF Next

\* Every mutex is held by a goroutine of its process, and only between the read
\* of the request and the write of its copy (Decide and Cancel).
THEOREM LockTheorem == ApprovalAssumption /\ Spec => []LockInv
<1>. SUFFICES ASSUME ApprovalAssumption PROVE Spec => []LockInv
  OBVIOUS
<1>1. Init => LockInv
  BY DEF Init, LockInv
<1>2. IInv /\ LockInv /\ [Next]_vars => LockInv'
  BY NextLockInv
<1>. QED  BY <1>1, <1>2, IInvariant, PTL DEF Spec

\* The goroutines that decide or cancel r.
Deciding(r) == {h \in Handler : pc[h] = "update" /\ job[h] = r}

\* With any number of processes: when r is settled, every goroutine that still
\* decides it runs in another process than the one that settled it, and while r
\* stays settled nobody joins them.  Only they, and the late write of the
\* message id, can overwrite what was decided (Decide, Cancel and their mutex).
RivalsElsewhere ==
    [][\A r \in Req : Settled(db'[r]) =>
          \/ Settled(db[r]) /\ Deciding(r)' \subseteq Deciding(r)
          \/ \E g \in Deciding(r) : \A h \in Deciding(r)' :
                h \in Deciding(r) /\ Host[h] # Host[g]]_vars

\* The rivals of a decision are in other processes than the one that took it.
THEOREM RivalsTheorem == ApprovalAssumption /\ Spec => RivalsElsewhere
<1>. SUFFICES ASSUME ApprovalAssumption PROVE Spec => RivalsElsewhere
  OBVIOUS
<1>. DEFINE Joins(r) == \/ Settled(db[r]) /\ Deciding(r)' \subseteq Deciding(r)
                        \/ \E g \in Deciding(r) : \A h \in Deciding(r)' :
                              h \in Deciding(r) /\ Host[h] # Host[g]
<1>1. IInv /\ LockInv /\ [Next]_vars => [\A r \in Req : Settled(db'[r]) => Joins(r)]_vars
  <2>. SUFFICES ASSUME IInv, LockInv, Next, NEW r \in Req, Settled(db'[r])
                PROVE  Joins(r)
    BY Zenon
  <2>. USE DEF IInv, TypeOK
  <2>1. ASSUME NEW h \in Handler, NEW u \in User, NEW x \in Req, NEW n \in Required,
               Submit(h, u, x, n)
        PROVE  Joins(r)
    <3>1. r # x /\ db'[r] = db[r] /\ \A g \in Handler : pc'[g] = "update" =>
              pc[g] = "update" /\ job'[g] = job[g]
      BY <2>1 DEF Submit, NewRow, Settled
    <3>. QED  BY <3>1 DEF Deciding
  <2>2. ASSUME NEW h \in Handler, NEW u \in User, NEW x \in Req,
               (\E d \in Decision : Decide(h, u, x, d)) \/ Cancel(h, u, x)
        PROVE  Joins(r)
    <3>1. /\ db[x].status = "pending" /\ db' = db /\ pc[h] = "idle"
          /\ pc' = [pc EXCEPT ![h] = "update"] /\ job' = [job EXCEPT ![h] = x]
      BY <2>2 DEF Decide, Cancel, Decidable
    <3>2. Settled(db[r]) /\ r # x
      BY <3>1 DEF Settled
    <3>3. \A g \in Handler : pc'[g] = "update" /\ job'[g] = r =>
              pc[g] = "update" /\ job[g] = r
      BY <3>1, <3>2
    <3>. QED  BY <3>2, <3>3 DEF Deciding
  <2>3. ASSUME NEW h \in Handler, Send(h) \/ StoreMessage(h) PROVE Joins(r)
    <3>1. \A g \in Handler : pc'[g] = "update" => pc[g] = "update" /\ job'[g] = job[g]
      BY <2>3 DEF Send, StoreMessage, Ends
    <3>2. Settled(db[r])
      <4>1. CASE Send(h)
        BY <4>1 DEF Send
      <4>2. CASE StoreMessage(h)
        <5>1. job[h] \in Req /\ mem[h].status = "pending"
          BY <4>2 DEF StoreMessage, CopyOK
        <5>2. ~Settled(Written(db[job[h]], mem[h]))
          BY <5>1, WrittenStatus DEF Settled
        <5>3. db' = db \/ db' = [db EXCEPT ![job[h]] = Written(db[job[h]], mem[h])]
          BY <4>2 DEF StoreMessage, Update
        <5>. QED  BY <5>1, <5>2, <5>3
      <4>. QED  BY <2>3, <4>1, <4>2
    <3>. QED  BY <3>1, <3>2 DEF Deciding
  <2>4. ASSUME NEW h \in Handler, Finish(h) PROVE Joins(r)
    <3>1. /\ pc[h] = "update" /\ job[h] \in Req
          /\ \A g \in Handler : pc'[g] = "update" =>
                g # h /\ pc[g] = "update" /\ job'[g] = job[g]
      BY <2>4 DEF Finish, Ends, CopyOK
    <3>2. CASE Settled(db[r])
      BY <3>1, <3>2 DEF Deciding
    <3>3. CASE ~Settled(db[r])
      <4>1. job[h] = r
        <5>. SUFFICES ASSUME job[h] # r PROVE db'[r] = db[r]
          BY <3>3
        <5>. QED  BY <2>4, <3>1 DEF Finish, Update
      <4>2. \A g \in Handler : pc[g] = "update" /\ g # h => Host[g] # Host[h]
        BY <3>1 DEF LockInv
      <4>3. h \in Deciding(r)
        BY <3>1, <4>1 DEF Deciding
      <4>4. \A g \in Deciding(r)' : g \in Deciding(r) /\ Host[g] # Host[h]
        BY <3>1, <4>2 DEF Deciding
      <4>. QED  BY <4>3, <4>4
    <3>. QED  BY <3>2, <3>3
  <2>5. ASSUME NEW p \in Replica, Restart(p) PROVE Joins(r)
    <3>1. db' = db /\ \A g \in Handler : pc'[g] = "update" =>
              pc[g] = "update" /\ job'[g] = job[g]
      BY <2>5 DEF Restart
    <3>. QED  BY <3>1 DEF Deciding
  <2>6. CASE ExpireOld
    <3>1. db'[r] = IF Overdue(db[r]) THEN [db[r] EXCEPT !.status = "expired"] ELSE db[r]
      BY <2>6 DEF ExpireOld
    <3>2. ~Settled([db[r] EXCEPT !.status = "expired"])
      BY DEF Row, Settled
    <3>3. Settled(db[r]) /\ UNCHANGED <<pc, job>>
      BY <2>6, <3>1, <3>2 DEF ExpireOld
    <3>. QED  BY <3>3 DEF Deciding
  <2>7. CASE Tick
    BY <2>7 DEF Tick, Deciding
  <2>. QED  BY <2>1, <2>2, <2>3, <2>4, <2>5, <2>6, <2>7 DEF Next
<1>. QED  BY <1>1, IInvariant, LockTheorem, PTL DEF Spec, RivalsElsewhere
-----------------------------------------------------------------------------
(* The workflow implements the life cycle of a request.                    *)

\* Some handler still holds a copy of r.
Busy(r) == \E h \in Handler : pc[h] # "idle" /\ job[h] = r

\* What one step does to one request, seen from outside.
LEMMA StepMoves ==
    ASSUME ApprovalAssumption, IInv, [Next]_vars, NEW r \in Req
    PROVE  /\ db[r].status # "none" => db'[r].status # "none"
           /\ ~Busy(r) /\ db[r].status = "none" =>
                 \/ ~Busy(r)' /\ db'[r].status = "none"
                 \/ db'[r].status = "pending"
           /\ ~Busy(r) /\ db[r].status \in Resolved =>
                 ~Busy(r)' /\ db'[r].status = db[r].status
<1>. DEFINE Goal ==
         /\ db[r].status # "none" => db'[r].status # "none"
         /\ ~Busy(r) /\ db[r].status = "none" =>
               \/ ~Busy(r)' /\ db'[r].status = "none"
               \/ db'[r].status = "pending"
         /\ ~Busy(r) /\ db[r].status \in Resolved =>
               ~Busy(r)' /\ db'[r].status = db[r].status
<1>. USE DEF IInv, Busy, Resolved
<1>1. ASSUME NEW h \in Handler, NEW u \in User, NEW x \in Req, NEW n \in Required,
             Submit(h, u, x, n)
      PROVE  Goal
  BY <1>1 DEF Submit, NewRow, TypeOK
<1>2. ASSUME NEW h \in Handler, NEW u \in User, NEW x \in Req, NEW d \in Decision,
             Decide(h, u, x, d)
      PROVE  Goal
  BY <1>2 DEF Decide, Decidable, TypeOK
<1>3. ASSUME NEW h \in Handler, NEW u \in User, NEW x \in Req, Cancel(h, u, x)
      PROVE  Goal
  BY <1>3 DEF Cancel, TypeOK
<1>4. ASSUME NEW h \in Handler, Send(h) PROVE Goal
  BY <1>4 DEF Send, Ends, TypeOK
<1>5. ASSUME NEW h \in Handler, StoreMessage(h) PROVE Goal
  <2>1. db[r].status # "none" => db'[r].status # "none"
    BY <1>5, WriteBackOK DEF StoreMessage, Update
  <2>2. ~Busy(r) => job[h] # r /\ db'[r] = db[r] /\ ~Busy(r)'
    BY <1>5 DEF StoreMessage, Update, Ends, TypeOK
  <2>. QED  BY <2>1, <2>2
<1>6. ASSUME NEW h \in Handler, Finish(h) PROVE Goal
  <2>1. db[r].status # "none" => db'[r].status # "none"
    BY <1>6, WriteBackOK DEF Finish, Update
  <2>2. ~Busy(r) => job[h] # r /\ db'[r] = db[r] /\ ~Busy(r)'
    BY <1>6 DEF Finish, Update, Ends, TypeOK
  <2>. QED  BY <2>1, <2>2
<1>7. ASSUME NEW p \in Replica, Restart(p) PROVE Goal
  BY <1>7 DEF Restart, TypeOK
<1>8. CASE ExpireOld
  BY <1>8 DEF ExpireOld, Overdue, TypeOK
<1>9. CASE Tick
  BY <1>9 DEF Tick
<1>10. CASE UNCHANGED vars
  BY <1>10 DEF vars
<1>. QED  BY <1>1, <1>2, <1>3, <1>4, <1>5, <1>6, <1>7, <1>8, <1>9, <1>10 DEF Next

\* Approval refines ApprovalLifecycle under the mapping Effective: initial
\* states map to initial states, and every step to a step or a stutter.
THEOREM RefinementTheorem == ApprovalAssumption /\ Spec => ImplementsLifecycle
<1>. SUFFICES ASSUME ApprovalAssumption PROVE Spec => ImplementsLifecycle
  OBVIOUS
<1>1. Init => Lifecycle!Init
  BY DEF Init, Lifecycle!Init, Effective, NoRow
<1>2. IInv /\ IInv' /\ [Next]_vars => [Lifecycle!Next]_Effective
  <2>. SUFFICES ASSUME IInv, IInv', [Next]_vars PROVE Lifecycle!Next
    OBVIOUS
  <2>1. \A r \in Req : /\ Effective[r] = IF Busy(r) THEN "pending" ELSE db[r].status
                       /\ Effective'[r] = IF Busy(r)' THEN "pending" ELSE db'[r].status
    BY DEF Effective, Busy
  <2>2. \A r \in Req : db[r].status \in Status /\ db'[r].status \in Status
    BY DEF IInv, TypeOK, Row
  <2>3. \A r \in Req : Busy(r) => db[r].status # "none"
    BY DEF Busy, IInv, CopyOK
  <2>4. Effective' \in [Req -> Lifecycle!Status]
    <3>1. \A r \in Req : Effective'[r] \in Status
      BY <2>1, <2>2 DEF Status
    <3>2. Effective' = [r \in Req |-> Effective'[r]]
      BY DEF Effective
    <3>3. Status = Lifecycle!Status
      BY DEF Status, Resolved, Lifecycle!Status, Lifecycle!Resolution
    <3>. QED  BY <3>1, <3>2, <3>3
  <2>5. ASSUME NEW r \in Req, Effective'[r] # Effective[r]
        PROVE  Lifecycle!Move(Effective[r], Effective'[r])
    BY <2>1, <2>2, <2>3, <2>5, StepMoves
       DEF Lifecycle!Move, Lifecycle!Resolution, Status, Resolved
  <2>. QED  BY <2>4, <2>5 DEF Lifecycle!Next
<1>. QED  BY <1>1, <1>2, IInvariant, PTL DEF Spec, ImplementsLifecycle, Lifecycle!Spec
=============================================================================
