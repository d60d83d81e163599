------------------------------ MODULE Reviews -------------------------------
(***************************************************************************)
(* The reviews of products, their moderation, the helpful votes, and the   *)
(* ratings kept with the product.                                          *)
(*                                                                         *)
(*    create     look for a review of the order item, insert one           *)
(*    update, approve, reject, hide    load the row, change it, save it    *)
(*    remove     load the row, mark it as deleted                          *)
(*    vote, removeVote    insert or delete the vote, then count it         *)
(*                                                                         *)
(* All but the votes end with recalculateProductRating: read the aggregate *)
(* of the visible reviews, then write it to the product.  The products     *)
(* service (update, publish, archive) writes the ratings too: it loads the *)
(* product and saves it.  Nothing is locked, no call has a transaction,    *)
(* and a save writes the whole row from memory: the count of votes and the *)
(* mark of deletion of a review, the ratings of a product.                 *)
(***************************************************************************)
EXTENDS Integers, FiniteSets

CONSTANTS
  Reviews,      \* calls of create, and the reviews they insert
  ProductOf,    \* the product a review is about
  ItemOf,       \* its order item, or None
  Calls,        \* calls of the other handlers
  ReviewOf,     \* the review a call is about
  UserOf,       \* who makes a call
  Updates,      \* calls of update, publish and archive of a product
  Updated,      \* their product
  Ratings,      \* 1..5
  Absent, None

ReviewStatus == {"PENDING", "APPROVED", "REJECTED", "HIDDEN"}
Review == [status : ReviewStatus, rating : Ratings, helpfulCount : Int, deleted : BOOLEAN]
Products == {ProductOf[r] : r \in Reviews}
Processes == Reviews \cup Calls
Edits == {"update", "approve", "reject", "hide"}
Stages == Edits \cup {"idle", "insert", "remove", "vote", "removeVote", "increment",
                      "decrement", "aggregate", "write", "done"}

ASSUME ConstantsAssumption ==
  /\ IsFiniteSet(Reviews) /\ IsFiniteSet(Calls)
  /\ Reviews \cap Calls = {}
  /\ DOMAIN ProductOf = Reviews /\ DOMAIN ItemOf = Reviews /\ DOMAIN UserOf = Calls
  /\ ReviewOf \in [Calls -> Reviews]
  /\ Updates \cap Processes = {} /\ Updated \in [Updates -> Products]
  /\ Absent \notin Review /\ Absent \notin Calls /\ Absent \notin [Ratings -> Nat]

VARIABLES
  review,       \* reviews
  voted,        \* review_helpful_votes, by the call that inserted them
  stars,        \* products: one_star_count to five_star_count; the average
                \* and the totals are computed from the same rows
  stage,        \* where a call is; the name of a handler that is about to save
  copy,         \* the row a call has loaded, as it will save or remove it
  found,        \* the aggregate a call has read
  loaded,       \* the ratings in the copy of the product that an update has loaded
  raced,        \* history: calls whose rows were written since they looked
  drifted       \* history: products whose ratings were last written from old rows

tables == <<review, voted, stars>>
calls == <<stage, copy, found, loaded>>
history == <<raced, drifted>>
vars == <<tables, calls, history>>

Of(p) == IF p \in Reviews THEN p ELSE ReviewOf[p]
Exists(r) == review[r] # Absent
Found(r) == Exists(r) /\ ~review[r].deleted
Visible(r) == Found(r) /\ review[r].status = "APPROVED"
VotesOf(r, u) == {v \in voted : Of(v) = r /\ UserOf[v] = u}

Init ==
  /\ review = [r \in Reviews |-> Absent]
  /\ voted = {}
  /\ stars = [p \in Products |-> [n \in Ratings |-> 0]]
  /\ stage = [p \in Processes |-> "idle"]
  /\ copy = [c \in Calls |-> Absent]
  /\ found = [p \in Processes |-> Absent]
  /\ loaded = [u \in Updates |-> Absent]
  /\ raced = {}
  /\ drifted = {}

Goto(p, next) == stage' = [stage EXCEPT ![p] = next]

(* The other calls that have loaded the row of p, or read the aggregate    *)
(* of its product.                                                         *)
Loaded(p) == {c \in Calls \ {p} : stage[c] \in Edits /\ Of(c) = Of(p)}
Counted(p) ==
  {q \in Processes \ {p} : stage[q] = "write" /\ ProductOf[Of(q)] = ProductOf[Of(p)]}

(* The row of p is written.                                                *)
Written(p, row) ==
  /\ review' = [review EXCEPT ![Of(p)] = row]
  /\ raced' = (raced \cup Loaded(p) \cup Counted(p)) \ {p}
-----------------------------------------------------------------------------
(* create looks for a review that is not deleted; the index on the order   *)
(* item also knows the deleted ones.  A call that is refused at once, here *)
(* or in Load, leaves no trace and is no step.                             *)
Look(r) ==
  /\ stage[r] = "idle"
  /\ ItemOf[r] = None \/ \A s \in Reviews : ItemOf[s] = ItemOf[r] => ~Found(s)
  /\ Goto(r, "insert")
  /\ UNCHANGED <<tables, copy, found, loaded, history>>

Unique(r) == ItemOf[r] = None \/ \A s \in Reviews : ItemOf[s] = ItemOf[r] => ~Exists(s)

(* A new review is visible at once.                                        *)
Insert(r) ==
  /\ stage[r] = "insert"
  /\ \/ /\ Unique(r)
        /\ \E n \in Ratings :
             Written(r, [status |-> "APPROVED", rating |-> n, helpfulCount |-> 0,
                         deleted |-> FALSE])
        /\ Goto(r, "aggregate")
     \/ /\ ~Unique(r)
        /\ Goto(r, "done")
        /\ UNCHANGED <<review, raced>>
  /\ UNCHANGED <<voted, stars, copy, found, loaded, drifted>>
-----------------------------------------------------------------------------
(* Mutant of Edited: an edit is published again.                           *)
EditedMutant(j, row) ==
  CASE j = "update"  -> {[row EXCEPT !.rating = n, !.status = "APPROVED"] : n \in Ratings}
    [] j = "approve" -> {[row EXCEPT !.status = "APPROVED"]}
    [] j = "reject"  -> {[row EXCEPT !.status = "REJECTED"]}
    [] j = "hide"    -> {[row EXCEPT !.status = "HIDDEN"]}

(* What a handler makes of the row it has loaded.                          *)
Edited(j, row) ==
  CASE j = "update"  -> {[row EXCEPT !.rating = n] : n \in Ratings}
    [] j = "approve" -> {[row EXCEPT !.status = "APPROVED"]}
    [] j = "reject"  -> {[row EXCEPT !.status = "REJECTED"]}
    [] j = "hide"    -> {[row EXCEPT !.status = "HIDDEN"]}

(* A call loads the review, and the vote of its user.                      *)
Load(c) ==
  LET r == ReviewOf[c]
  IN  /\ stage[c] = "idle"
      /\ \/ /\ Found(r)
            /\ \E j \in Edits : /\ copy' \in {[copy EXCEPT ![c] = row] : row \in Edited(j, review[r])}
                               /\ Goto(c, j)
         \/ Found(r) /\ Goto(c, "remove") /\ UNCHANGED copy
         \/ Found(r) /\ VotesOf(r, UserOf[c]) = {} /\ Goto(c, "vote") /\ UNCHANGED copy
         \/ /\ \E v \in VotesOf(r, UserOf[c]) : copy' = [copy EXCEPT ![c] = v]
            /\ Goto(c, "removeVote")
      /\ UNCHANGED <<tables, found, loaded, history>>

Save(c) ==
  /\ stage[c] \in Edits
  /\ Written(c, copy[c])
  /\ copy' = [copy EXCEPT ![c] = Absent]
  /\ Goto(c, "aggregate")
  /\ UNCHANGED <<voted, stars, found, loaded, drifted>>

(* Mutant of Remove: the ratings are left as they are.                     *)
RemoveMutant(c) ==
  /\ stage[c] = "remove"
  /\ Written(c, [review[Of(c)] EXCEPT !.deleted = TRUE])
  /\ Goto(c, "done")
  /\ UNCHANGED <<voted, stars, copy, found, loaded, drifted>>

(* softDelete sets one column.                                             *)
Remove(c) ==
  /\ stage[c] = "remove"
  /\ Written(c, [review[Of(c)] EXCEPT !.deleted = TRUE])
  /\ Goto(c, "aggregate")
  /\ UNCHANGED <<voted, stars, copy, found, loaded, drifted>>
-----------------------------------------------------------------------------
(* The votes are unique per review and user; their count is changed in one *)
(* statement, after the vote itself.                                       *)
Vote(c) ==
  /\ stage[c] = "vote"
  /\ \/ /\ VotesOf(Of(c), UserOf[c]) = {}
        /\ voted' = voted \cup {c}
        /\ Goto(c, "increment")
     \/ /\ VotesOf(Of(c), UserOf[c]) # {}
        /\ Goto(c, "done")
        /\ UNCHANGED voted
  /\ UNCHANGED <<review, stars, copy, found, loaded, history>>

(* Removing a vote that is gone already is no error.                       *)
Unvote(c) ==
  /\ stage[c] = "removeVote"
  /\ voted' = voted \ {copy[c]}
  /\ raced' = (raced \cup {d \in Calls : copy[d] = copy[c]}) \ {c}
  /\ copy' = [copy EXCEPT ![c] = Absent]
  /\ Goto(c, "decrement")
  /\ UNCHANGED <<review, stars, found, loaded, drifted>>

(* Mutant of Change: the vote that is taken back is counted once more.     *)
ChangeMutant(c) == 1

Change(c) == IF stage[c] = "increment" THEN 1 ELSE -1

Count(c) ==
  /\ stage[c] \in {"increment", "decrement"}
  /\ review' = [review EXCEPT ![Of(c)].helpfulCount = @ + Change(c)]
  /\ raced' = raced \cup Loaded(c)
  /\ Goto(c, "done")
  /\ UNCHANGED <<voted, stars, copy, found, loaded, drifted>>
-----------------------------------------------------------------------------
Rated(p, n) == {r \in Reviews : ProductOf[r] = p /\ Visible(r) /\ review[r].rating = n}

Stars(p) == [n \in Ratings |-> Cardinality(Rated(p, n))]

(* recalculateProductRating reads the aggregate ...                        *)
Aggregate(p) ==
  /\ stage[p] = "aggregate"
  /\ found' = [found EXCEPT ![p] = Stars(ProductOf[Of(p)])]
  /\ raced' = raced \ {p}
  /\ Goto(p, "write")
  /\ UNCHANGED <<tables, copy, loaded, drifted>>

(* The updates that have loaded a product.                                 *)
Holders(q) == {u \in Updates : Updated[u] = q /\ loaded[u] # Absent}

(* ... and writes it, whatever has been rated since.                       *)
WriteRating(p) ==
  LET q == ProductOf[Of(p)]
  IN  /\ stage[p] = "write"
      /\ stars' = [stars EXCEPT ![q] = found[p]]
      /\ drifted' = IF p \in raced THEN drifted \cup {q} ELSE drifted \ {q}
      /\ found' = [found EXCEPT ![p] = Absent]
      /\ raced' = (raced \cup Holders(q)) \ {p}
      /\ Goto(p, "done")
      /\ UNCHANGED <<review, voted, copy, loaded>>

(* The process dies, or the database refuses a statement.                  *)
Crash(p) ==
  /\ stage[p] \notin {"idle", "done"}
  /\ drifted' = IF stage[p] \in {"aggregate", "write"}
                  THEN drifted \cup {ProductOf[Of(p)]} ELSE drifted
  /\ raced' = raced \ {p}
  /\ found' = [found EXCEPT ![p] = Absent]
  /\ copy' = [c \in Calls |-> IF c = p THEN Absent ELSE copy[c]]
  /\ Goto(p, "done")
  /\ UNCHANGED <<tables, loaded>>
-----------------------------------------------------------------------------
(* findByIdOrFail loads the product, its ratings with it.                  *)
LoadProduct(u) ==
  /\ loaded[u] = Absent
  /\ loaded' = [loaded EXCEPT ![u] = stars[Updated[u]]]
  /\ raced' = raced \ {u}
  /\ UNCHANGED <<tables, stage, copy, found, drifted>>

(* The save brings back the ratings that were loaded: older ones, when     *)
(* others have been written since.                                         *)
SaveProduct(u) ==
  LET q == Updated[u]
  IN  /\ loaded[u] # Absent
      /\ stars' = [stars EXCEPT ![q] = loaded[u]]
      /\ drifted' = IF u \in raced THEN drifted \cup {q} ELSE drifted
      /\ raced' = (raced \cup Holders(q)) \ {u}
      /\ loaded' = [loaded EXCEPT ![u] = Absent]
      /\ UNCHANGED <<review, voted, stage, copy, found>>

(* The update is refused, for a brand or a category that does not exist,   *)
(* or the process dies.                                                    *)
GiveUp(u) ==
  /\ loaded[u] # Absent
  /\ loaded' = [loaded EXCEPT ![u] = Absent]
  /\ raced' = raced \ {u}
  /\ UNCHANGED <<tables, stage, copy, found, drifted>>
-----------------------------------------------------------------------------
Next ==
  \/ \E r \in Reviews : Look(r) \/ Insert(r)
  \/ \E c \in Calls : Load(c) \/ Save(c) \/ Remove(c) \/ Vote(c) \/ Unvote(c) \/ Count(c)
  \/ \E p \in Processes : Aggregate(p) \/ WriteRating(p) \/ Crash(p)
  \/ \E u \in Updates : LoadProduct(u) \/ SaveProduct(u) \/ GiveUp(u)

Spec == Init /\ [][Next]_vars
-----------------------------------------------------------------------------
(* The ratings of a product are those of its visible reviews, or a call is *)
(* still to bring them up to date; they stay behind only when the last     *)
(* call to write them had counted before another change, or had died       *)
(* before it wrote, or when an update of the product has put back older    *)
(* ones since (recalculateProductRating; update, publish and archive of    *)
(* the products service).                                                  *)
Owed(p) ==
  \E q \in Processes :
    /\ ProductOf[Of(q)] = p
    /\ stage[q] = "aggregate" \/ (stage[q] = "write" /\ q \notin raced)
RatingsFollowReviews ==
  \A p \in Products : stars[p] = Stars(p) \/ Owed(p) \/ p \in drifted

(* A review that was taken down - rejected, hidden or deleted - is shown   *)
(* again only by approve, or by a call that had loaded it before: an edit  *)
(* by its author does not bring it back, but one under way does.           *)
TakenDownStays ==
  [][\A r \in Reviews :
       Exists(r) /\ ~Visible(r) /\ Visible(r)' =>
         \E c \in Calls : Of(c) = r /\ stage'[c] = "aggregate"
                          /\ \/ stage[c] = "approve"
                             \/ stage[c] \in Edits /\ c \in raced]_vars

(* The count of a review is the number of its votes, but for those not yet *)
(* counted.                                                                *)
Counting(r, at) == Cardinality({c \in Calls : Of(c) = r /\ stage[c] = at})
VotesCounted(r) ==
  Exists(r) => review[r].helpfulCount + Counting(r, "increment") - Counting(r, "decrement")
                 = Cardinality({v \in voted : Of(v) = r})

(* It stops being that only when the process dies between the two          *)
(* statements, or when a call that read the review or the vote before      *)
(* another's write overrides it (save of the whole row, two removals of    *)
(* one vote).                                                              *)
OnlyRacesMiscount ==
  [][\A r \in Reviews :
       VotesCounted(r) /\ ~VotesCounted(r)' =>
         \E c \in Calls : Of(c) = r /\ stage'[c] # stage[c]
                          /\ \/ c \in raced
                             \/ stage[c] \in {"increment", "decrement"} /\ review' = review]_vars
=============================================================================
