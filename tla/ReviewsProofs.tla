---------------------------- MODULE ReviewsProofs ----------------------------
(***************************************************************************)
(* Safety of reviews, votes and ratings, for any number of reviews, calls  *)
(* and updates of products.  ReviewInv says what a call under way may rely *)
(* on: the row it has loaded, the vote it has found and the aggregate it   *)
(* has read are those of the tables unless another call has written since  *)
(* (raced); the same of the ratings that an update has loaded.             *)
(***************************************************************************)
EXTENDS Reviews, FiniteSetTheorems, TLAPS

ReviewsType ==
  /\ review \in [Reviews -> Review \cup {Absent}]
  /\ voted \subseteq Calls
  /\ stars \in [Products -> [Ratings -> Nat]]
  /\ stage \in [Processes -> Stages]
  /\ copy \in [Calls -> Review \cup Calls \cup {Absent}]
  /\ found \in [Processes -> [Ratings -> Nat] \cup {Absent}]
  /\ loaded \in [Updates -> [Ratings -> Nat] \cup {Absent}]
  /\ raced \subseteq Processes \cup Updates
  /\ drifted \subseteq Products

(* A call of create inserts its review once.                               *)
Creating(r) ==
  /\ stage[r] \in {"idle", "insert", "aggregate", "write", "done"}
  /\ stage[r] \in {"idle", "insert"} => ~Exists(r)

(* A call that has loaded a review found one, and a vote is for one.       *)
Grounded ==
  /\ \A c \in Calls :
       /\ stage[c] # "insert"
       /\ stage[c] \notin {"idle", "done"} => Exists(Of(c))
  /\ \A v \in voted : Exists(Of(v))

(* What a call holds in memory.                                            *)
Holding(c) ==
  /\ stage[c] \in Edits =>
       /\ copy[c] \in Review
       /\ c \in raced \/ (copy[c] \in Edited(stage[c], review[Of(c)]) /\ Found(Of(c)))
  /\ stage[c] = "removeVote" =>
       /\ copy[c] \in Calls /\ Of(copy[c]) = Of(c)
       /\ c \in raced \/ copy[c] \in voted
  /\ stage[c] \notin Edits \cup {"removeVote"} => copy[c] = Absent

(* A rating about to be written is the present one, unless raced.          *)
Fresh(q) ==
  stage[q] = "write" =>
    /\ found[q] \in [Ratings -> Nat]
    /\ q \in raced \/ found[q] = Stars(ProductOf[Of(q)])

(* So are the ratings that an update of the product has loaded.            *)
Kept(u) == loaded[u] # Absent /\ u \notin raced => loaded[u] = stars[Updated[u]]

ReviewInv ==
  /\ ReviewsType
  /\ \A r \in Reviews : Creating(r)
  /\ Grounded
  /\ \A c \in Calls : Holding(c)
  /\ \A q \in Processes : Fresh(q)
  /\ \A u \in Updates : Kept(u)

LEMMA Sorts ==
  /\ Reviews \subseteq Processes /\ Calls \subseteq Processes
  /\ \A r \in Reviews : r \notin Calls /\ Of(r) = r
  /\ \A c \in Calls : Of(c) \in Reviews /\ Of(c) = ReviewOf[c]
  /\ \A p \in Processes : Of(p) \in Reviews /\ ProductOf[Of(p)] \in Products
  /\ Absent \notin Review /\ Absent \notin Calls
  /\ \A u \in Updates : u \notin Processes /\ Updated[u] \in Products
  /\ Absent \notin [Ratings -> Nat]
  /\ IsFiniteSet(Reviews) /\ IsFiniteSet(Calls)
BY ConstantsAssumption DEF Processes, Of, Products

LEMMA EditedType ==
  ASSUME NEW j \in Edits, NEW row \in Review, NEW new \in Edited(j, row)
  PROVE  /\ new \in Review
         /\ new.helpfulCount = row.helpfulCount /\ new.deleted = row.deleted
         /\ j # "approve" => new.status = row.status \/ new.status # "APPROVED"
<1> USE DEF Review
<1>1. CASE j = "update"
  <2>1. PICK n \in Ratings : new = [row EXCEPT !.rating = n]
    BY <1>1 DEF Edited
  <2>2. QED
    BY <1>1, <2>1
<1>2. CASE j = "approve"
  BY <1>2 DEF Edited, ReviewStatus
<1>3. CASE j = "reject"
  BY <1>3 DEF Edited, ReviewStatus
<1>4. CASE j = "hide"
  BY <1>4 DEF Edited, ReviewStatus
<1>5. QED
  BY <1>1, <1>2, <1>3, <1>4 DEF Edits

LEMMA StarsType ==
  ASSUME NEW p \in Products
  PROVE  Stars(p) \in [Ratings -> Nat]
<1>1. \A n : Rated(p, n) \subseteq Reviews
  BY DEF Rated
<1>2. \A n : Cardinality(Rated(p, n)) \in Nat
  BY <1>1, Sorts, FS_Subset, FS_CardinalityType
<1>3. QED
  BY <1>2 DEF Stars

(* The ratings of a product depend on the visible reviews of it only.      *)
LEMMA SameStars ==
  ASSUME NEW p, \A r \in Reviews : ProductOf[r] = p =>
                  Visible(r)' = Visible(r) /\ (Visible(r) => review'[r].rating = review[r].rating)
  PROVE  Stars(p)' = Stars(p)
<1>1. \A n : Rated(p, n)' = Rated(p, n)
  BY DEF Rated
<1>2. QED
  BY <1>1 DEF Stars

(* The steps of a call, and those that write a row whole.                  *)
Act(p) ==
  \/ p \in Reviews /\ (Look(p) \/ Insert(p))
  \/ p \in Calls /\ (Load(p) \/ Save(p) \/ Remove(p) \/ Vote(p) \/ Unvote(p) \/ Count(p))
  \/ Aggregate(p) \/ WriteRating(p) \/ Crash(p)

Touch(u) == LoadProduct(u) \/ SaveProduct(u) \/ GiveUp(u)

LEMMA Acts == Next => (\E p \in Processes : Act(p)) \/ (\E u \in Updates : Touch(u))
BY DEF Next, Act, Touch, Processes

Publishes(p) ==
  \/ p \in Reviews /\ Insert(p) /\ Unique(p)
  \/ p \in Calls /\ (Save(p) \/ Remove(p))

LEMMA Inserting ==
  ASSUME NEW r \in Reviews, Insert(r), Unique(r)
  PROVE  /\ \E n \in Ratings :
              Written(r, [status |-> "APPROVED", rating |-> n, helpfulCount |-> 0,
                          deleted |-> FALSE])
         /\ Goto(r, "aggregate") /\ stage[r] = "insert"
         /\ UNCHANGED <<voted, stars, copy, found, loaded, drifted>>
BY DEF Insert

LEMMA Refused ==
  ASSUME NEW r \in Reviews, Insert(r), ~Unique(r)
  PROVE  /\ Goto(r, "done") /\ stage[r] = "insert"
         /\ UNCHANGED <<review, raced, voted, stars, copy, found, loaded, drifted>>
BY DEF Insert

(* A published row is a review, and replaces that of the call alone.       *)
LEMMA Publishing ==
  ASSUME ReviewInv, NEW p \in Processes, Publishes(p)
  PROVE  /\ \E row \in Review : Written(p, row)
         /\ Goto(p, "aggregate")
         /\ UNCHANGED <<voted, stars, found, loaded, drifted>>
         /\ stage[p] \in Edits \cup {"insert", "remove"}
         /\ p \in Calls => Exists(Of(p))
<1> USE DEF Publishes
<1>1. CASE p \in Reviews /\ Insert(p) /\ Unique(p)
  <2>1. \A n \in Ratings : [status |-> "APPROVED", rating |-> n, helpfulCount |-> 0,
                            deleted |-> FALSE] \in Review
    BY DEF Review, ReviewStatus
  <2>2. QED
    BY <1>1, <2>1, Inserting, Sorts
<1>2. CASE p \in Calls /\ Save(p)
  <2>1. copy[p] \in Review /\ Exists(Of(p))
    BY <1>2 DEF Save, ReviewInv, Holding, Grounded, Edits
  <2>2. QED
    BY <1>2, <2>1, Sorts DEF Save
<1>3. CASE p \in Calls /\ Remove(p)
  <2>1. review[Of(p)] \in Review /\ Exists(Of(p))
    BY <1>3, Sorts DEF Remove, ReviewInv, Grounded, ReviewsType, Exists
  <2>2. [review[Of(p)] EXCEPT !.deleted = TRUE] \in Review
    BY <2>1 DEF Review
  <2>3. QED
    BY <1>3, <2>1, <2>2, Sorts DEF Remove
<1>4. QED
  BY <1>1, <1>2, <1>3

(* The count of votes leaves the rest of its row as it is.                 *)
LEMMA CountSteps ==
  ASSUME ReviewInv, NEW c \in Calls, Count(c)
  PROVE  /\ Of(c) \in Reviews /\ review[Of(c)] \in Review
         /\ \E n \in Int : review' = [review EXCEPT ![Of(c)] = [@ EXCEPT !.helpfulCount = n]]
         /\ review' \in [Reviews -> Review \cup {Absent}]
         /\ \A r \in Reviews :
              /\ Exists(r)' = Exists(r) /\ Found(r)' = Found(r) /\ Visible(r)' = Visible(r)
              /\ Visible(r) => review'[r].rating = review[r].rating
              /\ r # Of(c) => review'[r] = review[r]
<1>1. Of(c) \in Reviews /\ review[Of(c)] \in Review
  BY Sorts DEF Count, ReviewInv, Grounded, ReviewsType, Exists
<1>2. review[Of(c)].helpfulCount + Change(c) \in Int
  BY <1>1 DEF Review, Change
<1>3. PICK n \in Int : review' = [review EXCEPT ![Of(c)] = [@ EXCEPT !.helpfulCount = n]]
  BY <1>2 DEF Count
<1>4. [review[Of(c)] EXCEPT !.helpfulCount = n] \in Review
  BY <1>1, <1>3 DEF Review
<1>5. /\ review' \in [Reviews -> Review \cup {Absent}]
      /\ review'[Of(c)] = [review[Of(c)] EXCEPT !.helpfulCount = n]
      /\ \A r \in Reviews : r # Of(c) => review'[r] = review[r]
  BY <1>1, <1>3, <1>4 DEF ReviewInv, ReviewsType
<1>6. /\ review'[Of(c)] # Absent /\ review[Of(c)] # Absent
      /\ review'[Of(c)].deleted = review[Of(c)].deleted
      /\ review'[Of(c)].status = review[Of(c)].status
      /\ review'[Of(c)].rating = review[Of(c)].rating
  BY <1>1, <1>4, <1>5, Sorts DEF Review
<1>7. QED
  BY <1>1, <1>3, <1>5, <1>6 DEF Exists, Found, Visible

(* A step moves one call.                                                  *)
LEMMA Local ==
  ASSUME ReviewsType, NEW p \in Processes, Act(p)
  PROVE  /\ \A q \in Processes \ {p} : stage'[q] = stage[q] /\ found'[q] = found[q]
         /\ \A c \in Calls \ {p} : copy'[c] = copy[c]
         /\ raced \subseteq raced' \cup {p}
         /\ loaded' = loaded
<1> USE DEF ReviewsType, Goto
<1>1. CASE p \in Reviews /\ (Look(p) \/ Insert(p))
  BY <1>1 DEF Look, Insert, Written, history, calls
<1>2. CASE p \in Calls /\ Load(p)
  BY <1>2 DEF Load, history
<1>3. CASE p \in Calls /\ (Save(p) \/ Remove(p))
  BY <1>3 DEF Save, Remove, Written
<1>4. CASE p \in Calls /\ (Vote(p) \/ Unvote(p) \/ Count(p))
  BY <1>4 DEF Vote, Unvote, Count, history
<1>5. CASE Aggregate(p) \/ WriteRating(p)
  BY <1>5 DEF Aggregate, WriteRating
<1>6. CASE Crash(p)
  BY <1>6 DEF Crash
<1>7. QED
  BY <1>1, <1>2, <1>3, <1>4, <1>5, <1>6 DEF Act

(* Whatever a step does to the table, it is one of these.                  *)
LEMMA RowSteps ==
  ASSUME NEW p \in Processes, Act(p)
  PROVE  Publishes(p) \/ (p \in Calls /\ Count(p)) \/ UNCHANGED review
BY DEF Act, Publishes, Look, Insert, Load, Vote, Unvote, Aggregate, WriteRating, Crash, tables

LEMMA RowsStay ==
  ASSUME ReviewInv, NEW p \in Processes, Act(p)
  PROVE  /\ review' \in [Reviews -> Review \cup {Absent}]
         /\ \A r \in Reviews : Exists(r) => Exists(r)'
<1>1. CASE Publishes(p)
  <2>1. PICK row \in Review : review' = [review EXCEPT ![Of(p)] = row]
    BY <1>1, Publishing DEF Written
  <2>2. QED
    BY <2>1, Sorts DEF ReviewInv, ReviewsType, Exists
<1>2. CASE p \in Calls /\ Count(p)
  BY <1>2, CountSteps
<1>3. CASE UNCHANGED review
  BY <1>3 DEF ReviewInv, ReviewsType, Exists
<1>4. QED
  BY <1>1, <1>2, <1>3, RowSteps

LEMMA TypeNext ==
  ASSUME ReviewInv, NEW p \in Processes, Act(p)
  PROVE  ReviewsType'
<1> USE DEF ReviewInv, ReviewsType, Goto
<1>0. review' \in [Reviews -> Review \cup {Absent}] /\ Of(p) \in Reviews
      /\ ProductOf[Of(p)] \in Products
  BY RowsStay, Sorts
<1>1. CASE Publishes(p)
  <2>1. raced' \subseteq Processes \cup Updates
    BY <1>1, Publishing, Sorts DEF Written, Loaded, Counted
  <2>2. stage' \in [Processes -> Stages]
    BY <1>1, Publishing DEF Stages
  <2>3. copy' \in [Calls -> Review \cup Calls \cup {Absent}]
    BY <1>1 DEF Publishes, Insert, Save, Remove
  <2>4. QED
    BY <1>0, <1>1, <2>1, <2>2, <2>3, Publishing
<1>2. CASE p \in Reviews /\ (Look(p) \/ (Insert(p) /\ ~Unique(p)))
  <2>1. CASE Look(p)
    BY <2>1 DEF Look, tables, history, Stages
  <2>2. CASE Insert(p) /\ ~Unique(p)
    BY <1>2, <2>2, Refused DEF Stages
  <2>3. QED
    BY <1>2, <2>1, <2>2
<1>3. CASE p \in Calls /\ Load(p)
  <2>1. stage' \in [Processes -> Stages]
    BY <1>3 DEF Load, Edits, Stages
  <2>2. copy' \in [Calls -> Review \cup Calls \cup {Absent}]
    <3>1. CASE copy' = copy
      BY <3>1
    <3>2. ASSUME NEW j \in Edits, NEW row \in Edited(j, review[ReviewOf[p]]),
                 Found(ReviewOf[p]), copy' = [copy EXCEPT ![p] = row]
          PROVE  copy' \in [Calls -> Review \cup Calls \cup {Absent}]
      <4>1. review[ReviewOf[p]] \in Review
        BY <1>3, <3>2, Sorts DEF Found, Exists
      <4>2. row \in Review
        BY <3>2, <4>1, EditedType
      <4>3. QED
        BY <3>2, <4>2
    <3>3. ASSUME NEW v \in VotesOf(ReviewOf[p], UserOf[p]), copy' = [copy EXCEPT ![p] = v]
          PROVE  copy' \in [Calls -> Review \cup Calls \cup {Absent}]
      BY <3>3 DEF VotesOf
    <3>4. QED
      BY <1>3, <3>1, <3>2, <3>3 DEF Load
  <2>3. QED
    BY <1>3, <2>1, <2>2 DEF Load, tables, history
<1>4. CASE p \in Calls /\ (Vote(p) \/ Unvote(p) \/ Count(p))
  <2>1. CASE Vote(p)
    BY <1>4, <2>1 DEF Vote, history, Stages
  <2>2. CASE Unvote(p)
    BY <1>4, <2>2, Sorts DEF Unvote, Stages
  <2>3. CASE Count(p)
    <3>1. raced' \subseteq Processes \cup Updates
      BY <2>3, Sorts DEF Count, Loaded
    <3>2. stage' \in [Processes -> Stages]
      BY <2>3 DEF Count, Stages
    <3>3. QED
      BY <1>0, <2>3, <3>1, <3>2 DEF Count
  <2>4. QED
    BY <1>4, <2>1, <2>2, <2>3
<1>5. CASE Aggregate(p)
  <2>1. Stars(ProductOf[Of(p)]) \in [Ratings -> Nat]
    BY <1>0, StarsType
  <2>2. QED
    BY <1>5, <2>1 DEF Aggregate, tables, Stages
<1>6. CASE WriteRating(p)
  <2>1. found[p] \in [Ratings -> Nat]
    BY <1>6 DEF WriteRating, Fresh
  <2>2. drifted' \subseteq Products
    BY <1>0, <1>6 DEF WriteRating
  <2>3. raced' \subseteq Processes \cup Updates
    BY <1>6 DEF WriteRating, Holders
  <2>4. QED
    BY <1>6, <2>1, <2>2, <2>3 DEF WriteRating, Stages
<1>7. CASE Crash(p)
  <2>1. drifted' \subseteq Products
    BY <1>0, <1>7 DEF Crash
  <2>2. QED
    BY <1>7, <2>1 DEF Crash, tables, Stages
<1>8. QED
  BY <1>1, <1>2, <1>3, <1>4, <1>5, <1>6, <1>7 DEF Act, Publishes

LEMMA CreatingNext ==
  ASSUME ReviewInv, NEW p \in Processes, Act(p), NEW r \in Reviews
  PROVE  Creating(r)'
<1> USE DEF ReviewInv, ReviewsType, Goto
<1>0. Creating(r) /\ r \in Processes /\ r \notin Calls /\ Of(r) = r
  BY Sorts
<1>1. CASE r = p
  <2>1. CASE Look(p)
    BY <1>0, <1>1, <2>1 DEF Look, tables, Creating, Exists
  <2>2. CASE Insert(p)
    BY <1>0, <1>1, <2>2 DEF Insert, Creating
  <2>3. CASE Aggregate(p) \/ WriteRating(p) \/ Crash(p)
    BY <1>0, <1>1, <2>3 DEF Aggregate, WriteRating, Crash, Creating
  <2>4. QED
    BY <1>0, <1>1, <2>1, <2>2, <2>3 DEF Act
<1>2. CASE r # p
  <2>1. stage'[r] = stage[r]
    BY <1>0, <1>2, Local
  <2>2. ~Exists(r) => ~Exists(r)'
    <3>1. CASE Publishes(p)
      <4>1. ~Exists(r) => Of(p) # r
        BY <1>0, <1>2, <3>1, Publishing, Sorts DEF Processes
      <4>2. QED
        BY <3>1, <4>1, Publishing DEF Written, Exists
    <3>2. CASE p \in Calls /\ Count(p)
      BY <3>2, CountSteps
    <3>3. CASE UNCHANGED review
      BY <3>3 DEF Exists
    <3>4. QED
      BY <3>1, <3>2, <3>3, RowSteps
  <2>3. QED
    BY <1>0, <2>1, <2>2 DEF Creating
<1>3. QED
  BY <1>1, <1>2

LEMMA GroundedNext ==
  ASSUME ReviewInv, NEW p \in Processes, Act(p)
  PROVE  Grounded'
<1> USE DEF ReviewInv, ReviewsType, Goto
<1>1. ASSUME NEW c \in Calls PROVE stage'[c] # "insert" /\ (stage'[c] \notin {"idle", "done"} => Exists(Of(c))')
  <2>0. c \in Processes /\ Of(c) \in Reviews /\ Of(c) = ReviewOf[c] /\ c \notin Reviews
    BY <1>1, Sorts
  <2>1. CASE stage[c] \notin {"idle", "done"}
    <3>1. Exists(Of(c)) /\ stage[c] # "insert"
      BY <1>1, <2>1 DEF Grounded
    <3>2. stage'[c] # "insert"
      BY <2>0, <3>1 DEF Act, Look, Insert, Load, Save, Remove, Vote, Unvote, Count, Edits,
         Aggregate, WriteRating, Crash
    <3>3. QED
      BY <2>0, <3>1, <3>2, RowsStay DEF Of
  <2>2. CASE stage[c] \in {"idle", "done"} /\ c = p
    <3>1. stage'[c] \notin {"idle", "done"} => Load(c)
      BY <2>0, <2>2 DEF Act, Save, Remove, Vote, Unvote, Count, Edits, Aggregate,
         WriteRating, Crash
    <3>2. Load(c) => Exists(Of(c)) /\ stage'[c] # "insert" /\ review' = review
      BY <2>0 DEF Load, Found, VotesOf, Grounded, Edits, tables
    <3>3. QED
      BY <2>0, <3>1, <3>2, RowsStay DEF Of
  <2>3. CASE stage[c] \in {"idle", "done"} /\ c # p
    BY <2>0, <2>3, Local
  <2>4. QED
    BY <2>1, <2>2, <2>3
<1>2. ASSUME NEW v \in voted' PROVE Exists(Of(v))'
  <2>1. v \in voted \/ (v = p /\ p \in Calls /\ stage[p] = "vote")
    BY <1>2, Publishing DEF Act, Look, Insert, Load, Save, Remove, Vote, Unvote, Count, Aggregate,
       WriteRating, Crash, tables
  <2>2. Exists(Of(v)) /\ Of(v) \in Reviews
    BY <2>1, Sorts DEF Grounded
  <2>3. QED
    BY <2>2, RowsStay DEF Of
<1>3. QED
  BY <1>1, <1>2 DEF Grounded, Of

(* The handlers make of a row what they make of it at any time.            *)
LEMMA EditedNow ==
  ASSUME NEW c
  PROVE  Edited(stage[c], review[Of(c)])' = Edited(stage'[c], review'[Of(c)])
BY DEF Edited, Of

(* Other calls keep what they hold, or are told that it is old.            *)
LEMMA OthersHold ==
  ASSUME ReviewInv, NEW p \in Processes, Act(p), NEW c \in Calls, c # p
  PROVE  Holding(c)'
<1> USE DEF ReviewInv, ReviewsType
<1>0. /\ c \in Processes /\ Of(c) \in Reviews /\ stage'[c] = stage[c] /\ copy'[c] = copy[c]
      /\ Holding(c) /\ (c \in raced => c \in raced')
  BY Local, Sorts
<1>1. ASSUME stage[c] \in Edits, c \notin raced'
      PROVE  review'[Of(c)] = review[Of(c)]
  <2>1. CASE Publishes(p)
    <3>1. PICK row \in Review : Written(p, row)
      BY <2>1, Publishing
    <3>2. Of(c) # Of(p)
      BY <1>0, <1>1, <3>1 DEF Written, Loaded
    <3>3. QED
      BY <1>0, <3>1, <3>2 DEF Written
  <2>2. CASE p \in Calls /\ Count(p)
    <3>1. Of(c) # Of(p)
      BY <1>0, <1>1, <2>2 DEF Count, Loaded
    <3>2. QED
      BY <1>0, <2>2, <3>1, CountSteps
  <2>3. QED
    BY <2>1, <2>2, RowSteps
<1>2. ASSUME stage[c] = "removeVote", c \notin raced', copy[c] \in voted
      PROVE  copy[c] \in voted'
  <2>1. CASE p \in Calls /\ Unvote(p)
    BY <1>0, <1>2, <2>1 DEF Unvote
  <2>2. CASE ~(p \in Calls /\ Unvote(p))
    <3>1. voted \subseteq voted'
      BY <2>2, Publishing DEF Act, Look, Insert, Load, Save, Remove, Vote, Count, Aggregate,
         WriteRating, Crash, tables
    <3>2. QED
      BY <1>2, <3>1
  <2>3. QED
    BY <2>1, <2>2
<1>3. QED
  BY <1>0, <1>1, <1>2, EditedNow DEF Holding, Found, Exists, Of

LEMMA OwnHolds ==
  ASSUME ReviewInv, NEW p \in Calls, Act(p)
  PROVE  Holding(p)'
<1> USE DEF ReviewInv, ReviewsType, Goto
<1>0. p \in Processes /\ p \notin Reviews /\ Of(p) \in Reviews /\ Of(p) = ReviewOf[p] /\ Holding(p)
  BY Sorts
<1>1. CASE Load(p)
  <2>0. stage[p] = "idle" /\ copy[p] = Absent /\ review' = review /\ raced' = raced /\ voted' = voted
    BY <1>0, <1>1 DEF Load, Holding, tables, history, Edits
  <2>1. ASSUME NEW j \in Edits, Found(Of(p)), stage'[p] = j,
               NEW row \in Edited(j, review[Of(p)]), copy' = [copy EXCEPT ![p] = row]
        PROVE  Holding(p)'
    <3>1. review[Of(p)] \in Review /\ j # "removeVote"
      BY <1>0, <2>1 DEF Found, Exists, Edits
    <3>2. row \in Review
      BY <2>1, <3>1, EditedType
    <3>3. copy'[p] = row
      BY <2>1
    <3>4. QED
      BY <2>0, <2>1, <3>1, <3>2, <3>3, EditedNow DEF Holding, Found, Exists, Of
  <2>2. ASSUME stage'[p] \in {"remove", "vote"}, copy' = copy
        PROVE  Holding(p)'
    BY <2>0, <2>2 DEF Holding, Edits
  <2>3. ASSUME NEW v \in VotesOf(Of(p), UserOf[p]), copy' = [copy EXCEPT ![p] = v],
               stage'[p] = "removeVote"
        PROVE  Holding(p)'
    <3>1. v \in voted /\ v \in Calls /\ Of(v) = Of(p) /\ copy'[p] = v
      BY <2>3 DEF VotesOf
    <3>2. QED
      BY <2>0, <2>3, <3>1 DEF Holding, Edits, Of
  <2>4. QED
    <3>1. \/ \E j \in Edits : /\ Found(Of(p))
                              /\ copy' \in {[copy EXCEPT ![p] = row] : row \in Edited(j, review[Of(p)])}
                              /\ stage'[p] = j
          \/ stage'[p] \in {"remove", "vote"} /\ copy' = copy
          \/ /\ \E v \in VotesOf(Of(p), UserOf[p]) : copy' = [copy EXCEPT ![p] = v]
             /\ stage'[p] = "removeVote"
      BY <1>0, <1>1 DEF Load
    <3>2. QED
      BY <2>1, <2>2, <2>3, <3>1
<1>2. CASE Save(p)
  BY <1>0, <1>2 DEF Save, Holding, Edits
<1>3. CASE Remove(p)
  BY <1>0, <1>3 DEF Remove, Holding, Edits
<1>4. CASE Vote(p) \/ Count(p)
  BY <1>0, <1>4 DEF Vote, Count, Holding, Edits
<1>5. CASE Unvote(p)
  BY <1>0, <1>5 DEF Unvote, Holding, Edits
<1>6. CASE Aggregate(p) \/ WriteRating(p)
  BY <1>0, <1>6 DEF Aggregate, WriteRating, Holding, Edits
<1>7. CASE Crash(p)
  BY <1>0, <1>7 DEF Crash, Holding, Edits
<1>8. QED
  BY <1>0, <1>1, <1>2, <1>3, <1>4, <1>5, <1>6, <1>7 DEF Act

(* The ratings of a product change only when one of its reviews is         *)
(* published.                                                              *)
LEMMA StarsStay ==
  ASSUME ReviewInv, NEW p \in Processes, Act(p), NEW q \in Products,
         Publishes(p) => ProductOf[Of(p)] # q
  PROVE  Stars(q)' = Stars(q)
<1> USE DEF ReviewInv, ReviewsType
<1>1. CASE Publishes(p)
  <2>1. PICK row \in Review : Written(p, row)
    BY <1>1, Publishing
  <2>2. \A r \in Reviews : ProductOf[r] = q => review'[r] = review[r]
    BY <1>1, <2>1 DEF Written
  <2>3. QED
    BY <2>2, SameStars DEF Visible, Found, Exists
<1>2. CASE p \in Calls /\ Count(p)
  BY <1>2, CountSteps, SameStars
<1>3. CASE UNCHANGED review
  BY <1>3, SameStars DEF Visible, Found, Exists
<1>4. QED
  BY <1>1, <1>2, <1>3, RowSteps

LEMMA FreshNext ==
  ASSUME ReviewInv, NEW p \in Processes, Act(p), NEW q \in Processes
  PROVE  Fresh(q)'
<1> USE DEF ReviewInv, ReviewsType, Goto
<1> DEFINE s == ProductOf[Of(q)]
<1>0. s \in Products /\ Fresh(q) /\ (Of(q))' = Of(q)
  BY Sorts DEF Of
<1>1. CASE q # p
  <2>0. stage'[q] = stage[q] /\ found'[q] = found[q] /\ (q \in raced => q \in raced')
    BY <1>1, Local
  <2>1. ASSUME stage[q] = "write", q \notin raced' PROVE Stars(s)' = Stars(s)
    <3>1. Publishes(p) => ProductOf[Of(p)] # s
      <4>1. ASSUME Publishes(p), ProductOf[Of(p)] = s PROVE FALSE
        <5>1. q \in Counted(p)
          BY <1>1, <2>1, <4>1 DEF Counted
        <5>2. q \in raced'
          BY <1>1, <4>1, <5>1, Publishing DEF Written
        <5>3. QED
          BY <2>1, <5>2
      <4>2. QED
        BY <4>1
    <3>2. QED
      BY <1>0, <3>1, StarsStay
  <2>2. QED
    BY <1>0, <2>0, <2>1 DEF Fresh
<1>2. CASE q = p
  <2>1. CASE Aggregate(p)
    <3>1. ~Publishes(p)
      BY <2>1, Publishing DEF Aggregate, Edits
    <3>2. Stars(s)' = Stars(s) /\ Stars(s) \in [Ratings -> Nat]
      BY <1>0, <3>1, StarsStay, StarsType
    <3>3. found'[q] = Stars(s)
      BY <1>2, <2>1 DEF Aggregate
    <3>4. QED
      BY <1>0, <3>2, <3>3 DEF Fresh
  <2>2. CASE ~Aggregate(p)
    <3>1. stage'[p] # "write"
      BY <2>2, Publishing DEF Act, Look, Insert, Load, Save, Remove, Vote, Unvote, Count, Edits,
         WriteRating, Crash
    <3>2. QED
      BY <1>2, <3>1 DEF Fresh
  <2>3. QED
    BY <2>1, <2>2
<1>3. QED
  BY <1>1, <1>2

(* Ratings that were loaded stay those of the product until others are     *)
(* written.                                                                *)
LEMMA KeptNext ==
  ASSUME ReviewInv, NEW p \in Processes, Act(p), NEW u \in Updates
  PROVE  Kept(u)'
<1> USE DEF ReviewInv, ReviewsType
<1>1. /\ loaded' = loaded /\ Kept(u) /\ Updated[u] \in Products
      /\ u \in raced => u \in raced'
  BY Local, Sorts
<1>2. CASE WriteRating(p)
  <2>1. ASSUME loaded[u] # Absent, u \notin raced'
        PROVE  stars'[Updated[u]] = stars[Updated[u]]
    <3>1. u \notin Holders(ProductOf[Of(p)]) /\ stars' = [stars EXCEPT ![ProductOf[Of(p)]] = found[p]]
      BY <1>2, <2>1, Sorts DEF WriteRating
    <3>2. Updated[u] # ProductOf[Of(p)]
      BY <2>1, <3>1 DEF Holders
    <3>3. QED
      BY <1>1, <3>1, <3>2
  <2>2. QED
    BY <1>1, <2>1 DEF Kept
<1>3. CASE ~WriteRating(p)
  <2>1. stars' = stars
    BY <1>3, Publishing, Refused DEF Act, Publishes, Look, Load, Vote, Unvote, Count, Aggregate,
       Crash, tables
  <2>2. QED
    BY <1>1, <2>1 DEF Kept
<1>4. QED
  BY <1>2, <1>3

(* An update of a product leaves the reviews and their calls alone.        *)
LEMMA Touching ==
  ASSUME ReviewInv, NEW u \in Updates, Touch(u)
  PROVE  /\ UNCHANGED <<review, voted, stage, copy, found>>
         /\ loaded' \in [Updates -> [Ratings -> Nat] \cup {Absent}]
         /\ stars' \in [Products -> [Ratings -> Nat]]
         /\ raced' \subseteq Processes \cup Updates
         /\ drifted' \subseteq Products /\ drifted \subseteq drifted'
         /\ \A p \in Processes : p \in raced' <=> p \in raced
         /\ \A w \in Updates \ {u} : loaded'[w] = loaded[w] /\ (w \in raced => w \in raced')
         /\ \A w \in Updates \ {u} : loaded[w] # Absent /\ w \notin raced' =>
                                        stars'[Updated[w]] = stars[Updated[w]]
         /\ loaded'[u] = Absent \/ (loaded'[u] = stars[Updated[u]] /\ stars' = stars)
<1> USE DEF ReviewInv, ReviewsType
<1>0. Updated[u] \in Products /\ u \notin Processes
  BY Sorts
<1>1. CASE LoadProduct(u)
  <2>1. stars[Updated[u]] \in [Ratings -> Nat]
    BY <1>0
  <2>2. QED
    BY <1>0, <1>1, <2>1 DEF LoadProduct, tables
<1>2. CASE SaveProduct(u)
  <2>1. loaded[u] \in [Ratings -> Nat]
    BY <1>2 DEF SaveProduct
  <2>2. \A w \in Holders(Updated[u]) : w \in Updates
    BY DEF Holders
  <2>3. ASSUME NEW w \in Updates \ {u}, loaded[w] # Absent, w \notin raced'
        PROVE  stars'[Updated[w]] = stars[Updated[w]]
    <3>1. w \notin Holders(Updated[u])
      BY <1>2, <2>3 DEF SaveProduct
    <3>2. Updated[w] # Updated[u] /\ Updated[w] \in Products
      BY <2>3, <3>1, Sorts DEF Holders
    <3>3. QED
      BY <1>2, <3>2 DEF SaveProduct
  <2>4. QED
    BY <1>0, <1>2, <2>1, <2>2, <2>3, Sorts DEF SaveProduct
<1>3. CASE GiveUp(u)
  BY <1>0, <1>3 DEF GiveUp, tables
<1>4. QED
  BY <1>1, <1>2, <1>3 DEF Touch

LEMMA TouchNext ==
  ASSUME ReviewInv, NEW u \in Updates, Touch(u)
  PROVE  ReviewInv'
<1>1. /\ UNCHANGED <<review, voted, stage, copy, found>>
      /\ \A p \in Processes : p \in raced' <=> p \in raced
  BY Touching
<1>2. \A q : Stars(q)' = Stars(q)
  BY <1>1, SameStars DEF Visible, Found, Exists
<1>3. ReviewsType'
  BY Touching DEF ReviewInv, ReviewsType
<1>4. Grounded' /\ \A r \in Reviews : Creating(r)'
  BY <1>1, Touching DEF ReviewInv, ReviewsType, Creating, Grounded, Exists, Of
<1>5. \A c \in Calls : Holding(c)'
  BY <1>1, EditedNow, Sorts DEF ReviewInv, Holding, Exists, Found, Of
<1>6. \A q \in Processes : Fresh(q)'
  BY <1>1, <1>2 DEF ReviewInv, Fresh, Of
<1>7. ASSUME NEW w \in Updates PROVE Kept(w)'
  <2>1. CASE w = u
    BY <2>1, Touching DEF Kept
  <2>2. CASE w # u
    <3>1. /\ loaded'[w] = loaded[w] /\ (w \in raced => w \in raced') /\ Kept(w)
          /\ loaded[w] # Absent /\ w \notin raced' => stars'[Updated[w]] = stars[Updated[w]]
      BY <2>2, Touching DEF ReviewInv
    <3>2. QED
      BY <3>1 DEF Kept
  <2>3. QED
    BY <2>1, <2>2
<1>8. QED
  BY <1>3, <1>4, <1>5, <1>6, <1>7 DEF ReviewInv

LEMMA ReviewsAlways == Spec => []ReviewInv
<1>1. Init => ReviewInv
  <2>1. ASSUME Init PROVE ReviewsType
    BY <2>1 DEF Init, ReviewsType, Stages
  <2>2. QED
    BY <2>1, Sorts DEF Init, ReviewInv, Creating, Grounded, Holding, Fresh, Kept, Exists, Edits
<1>2. ReviewInv /\ [Next]_vars => ReviewInv'
  <2>1. ASSUME ReviewInv, NEW p \in Processes, Act(p) PROVE ReviewInv'
    <3>1. \A c \in Calls : Holding(c)'
      BY <2>1, OthersHold, OwnHolds
    <3>2. QED
      BY <2>1, <3>1, TypeNext, CreatingNext, GroundedNext, FreshNext, KeptNext DEF ReviewInv
  <2>2. ASSUME ReviewInv, UNCHANGED vars PROVE ReviewInv'
    <3>1. \A q : Stars(q)' = Stars(q)
      BY <2>2, SameStars DEF vars, tables, Visible, Found, Exists
    <3>2. UNCHANGED <<review, voted, stars, stage, copy, found, loaded, raced, drifted>>
      BY <2>2 DEF vars, tables, calls, history
    <3>3. /\ ReviewsType' /\ Grounded'
          /\ \A r \in Reviews : Creating(r)'
      BY <2>2, <3>2 DEF ReviewInv, ReviewsType, Creating, Grounded, Exists, Of
    <3>4. \A c \in Calls : Holding(c)'
      BY <2>2, <3>2, EditedNow DEF ReviewInv, Holding, Exists, Found, Of
    <3>5. \A q \in Processes : Fresh(q)'
      BY <2>2, <3>1, <3>2 DEF ReviewInv, Fresh, Of
    <3>6. \A u \in Updates : Kept(u)'
      BY <2>2, <3>2 DEF ReviewInv, Kept
    <3>7. QED
      BY <3>3, <3>4, <3>5, <3>6 DEF ReviewInv
  <2>3. QED
    BY <2>1, <2>2, Acts, TouchNext
<1>3. QED
  BY <1>1, <1>2, PTL DEF Spec

(***************************************************************************)
(* The ratings.                                                            *)
(***************************************************************************)
UpToDate(q) == stars[q] = Stars(q) \/ Owed(q) \/ q \in drifted

(* A call that is about to write what it has counted is not overtaken by   *)
(* a step that publishes nothing of the product.                           *)
LEMMA StillFresh ==
  ASSUME ReviewInv, NEW p \in Processes, Act(p), NEW o \in Processes, o # p,
         stage[o] = "write", o \notin raced, Publishes(p) => ProductOf[Of(p)] # ProductOf[Of(o)]
  PROVE  o \notin raced'
<1> USE DEF ReviewInv, ReviewsType
<1>1. CASE Publishes(p)
  BY <1>1, Publishing DEF Written, Loaded, Counted, Edits
<1>2. CASE p \in Calls /\ Unvote(p)
  <2>1. copy[p] \in Calls
    BY <1>2 DEF Unvote, Holding
  <2>2. o \in Calls => copy[o] = Absent
    BY DEF Holding, Edits
  <2>3. QED
    BY <1>2, <2>1, <2>2, Sorts DEF Unvote
<1>3. CASE p \in Calls /\ Count(p)
  BY <1>3 DEF Count, Loaded, Edits
<1>4. CASE ~Publishes(p) /\ ~(p \in Calls /\ (Unvote(p) \/ Count(p)))
  <2>1. raced' \subseteq raced \cup Updates
    BY <1>4, Refused DEF Act, Publishes, Look, Insert, Load, Vote, Aggregate, WriteRating, Crash,
       history, Holders
  <2>2. QED
    BY <2>1, Sorts
<1>5. QED
  BY <1>1, <1>2, <1>3, <1>4

LEMMA UpToDateNext ==
  ASSUME ReviewInv, NEW p \in Processes, Act(p), NEW q \in Products, UpToDate(q)
  PROVE  UpToDate(q)'
<1> USE DEF ReviewInv, ReviewsType, Goto
<1> DEFINE s == ProductOf[Of(p)]
<1>0. (Of(p))' = Of(p) /\ s \in Products
  BY Sorts DEF Of
<1>1. CASE Publishes(p) /\ s = q
  <2>1. stage'[p] = "aggregate"
    BY <1>1, Publishing
  <2>2. Owed(q)'
    BY <1>0, <1>1, <2>1 DEF Owed
  <2>3. QED
    BY <2>2 DEF UpToDate
<1>2. CASE WriteRating(p) /\ s = q
  <2>1. ~Publishes(p)
    BY <1>2, Publishing DEF WriteRating, Edits
  <2>2. Stars(q)' = Stars(q)
    BY <2>1, StarsStay
  <2>3. CASE p \in raced
    BY <1>2, <2>3 DEF WriteRating, UpToDate
  <2>4. CASE p \notin raced
    <3>1. stars'[q] = found[p] /\ found[p] = Stars(q)
      BY <1>0, <1>2, <2>4 DEF WriteRating, Fresh
    <3>2. QED
      BY <2>2, <3>1 DEF UpToDate
  <2>5. QED
    BY <2>3, <2>4
<1>3. CASE ~(Publishes(p) /\ s = q) /\ ~(WriteRating(p) /\ s = q)
  <2>1. Stars(q)' = Stars(q)
    BY <1>3, StarsStay
  <2>2. stars'[q] = stars[q] /\ (q \in drifted => q \in drifted')
    BY <1>3, Publishing, Refused DEF Act, Publishes, Look, Load, Vote, Unvote, Count, Aggregate,
       WriteRating, Crash, tables, history
  <2>3. CASE stars[q] = Stars(q) \/ q \in drifted
    BY <2>1, <2>2, <2>3 DEF UpToDate
  <2>4. CASE Owed(q)
    <3>1. PICK o \in Processes :
            /\ ProductOf[Of(o)] = q
            /\ stage[o] = "aggregate" \/ (stage[o] = "write" /\ o \notin raced)
      BY <2>4 DEF Owed
    <3>2. (Of(o))' = Of(o)
      BY DEF Of
    <3>3. CASE o # p
      <4>1. stage'[o] = stage[o]
        BY <3>3, Local
      <4>2. stage[o] = "write" => o \notin raced'
        BY <1>3, <3>1, <3>3, StillFresh
      <4>3. QED
        BY <3>1, <3>2, <4>1, <4>2 DEF Owed, UpToDate
    <3>4. CASE o = p /\ Aggregate(p)
      <4>1. stage'[o] = "write" /\ o \notin raced'
        BY <3>4 DEF Aggregate
      <4>2. QED
        BY <3>1, <3>2, <4>1 DEF Owed, UpToDate
    <3>5. CASE o = p /\ Crash(p)
      BY <3>1, <3>5 DEF Crash, UpToDate
    <3>6. CASE o = p /\ ~Aggregate(p) /\ ~Crash(p)
      <4>1. stage[p] \notin {"aggregate", "write"} \/ WriteRating(p)
        BY <3>6 DEF Act, Look, Insert, Load, Save, Remove, Vote, Unvote, Count, Edits
      <4>2. QED
        BY <1>3, <3>1, <3>6, <4>1
    <3>7. QED
      BY <3>3, <3>4, <3>5, <3>6
  <2>5. QED
    BY <2>3, <2>4 DEF UpToDate
<1>4. QED
  BY <1>1, <1>2, <1>3

(* An update of a product writes the ratings as they are, or puts back     *)
(* older ones.                                                             *)
LEMMA UpToDateTouched ==
  ASSUME ReviewInv, NEW u \in Updates, Touch(u), NEW q \in Products, UpToDate(q)
  PROVE  UpToDate(q)'
<1>1. /\ UNCHANGED <<review, stage>> /\ drifted \subseteq drifted'
      /\ \A p \in Processes : p \in raced' <=> p \in raced
  BY Touching
<1>2. Stars(q)' = Stars(q)
  BY <1>1, SameStars DEF Visible, Found, Exists
<1>3. Owed(q)' <=> Owed(q)
  BY <1>1 DEF Owed, Of
<1>4. stars'[q] = stars[q] \/ q \in drifted'
  <2>1. CASE SaveProduct(u) /\ Updated[u] = q /\ u \notin raced
    BY <2>1 DEF SaveProduct, ReviewInv, ReviewsType, Kept
  <2>2. CASE SaveProduct(u) /\ Updated[u] = q /\ u \in raced
    BY <2>2 DEF SaveProduct
  <2>3. CASE ~(SaveProduct(u) /\ Updated[u] = q)
    BY <2>3 DEF Touch, LoadProduct, SaveProduct, GiveUp, tables, ReviewInv, ReviewsType
  <2>4. QED
    BY <2>1, <2>2, <2>3
<1>5. QED
  BY <1>1, <1>2, <1>3, <1>4 DEF UpToDate

(* The ratings of a product are those of its visible reviews, or a call    *)
(* still owes them; they are behind only when the last call to write them  *)
(* had been overtaken or had died (recalculateProductRating), or when an   *)
(* update, publish or archive of the product has put back older ones.      *)
THEOREM RatingsFollow == Spec => []RatingsFollowReviews
<1>1. Init => \A q \in Products : UpToDate(q)
  <2>1. ASSUME Init, NEW q \in Products PROVE stars[q] = Stars(q)
    <3>1. \A n : Rated(q, n) = {}
      BY <2>1 DEF Init, Rated, Visible, Found, Exists
    <3>2. \A n : Cardinality(Rated(q, n)) = 0
      BY <3>1, FS_EmptySet
    <3>3. QED
      BY <2>1, <3>2 DEF Init, Stars
  <2>2. QED
    BY <2>1 DEF UpToDate
<1>2. ReviewInv /\ (\A q \in Products : UpToDate(q)) /\ [Next]_vars
        => (\A q \in Products : UpToDate(q))'
  <2>1. ASSUME ReviewInv, NEW p \in Processes, Act(p), NEW q \in Products, UpToDate(q)
        PROVE  UpToDate(q)'
    BY <2>1, UpToDateNext
  <2>2. ASSUME ReviewInv, NEW u \in Updates, Touch(u), NEW q \in Products, UpToDate(q)
        PROVE  UpToDate(q)'
    BY <2>2, UpToDateTouched
  <2>3. ASSUME UNCHANGED vars, NEW q \in Products, UpToDate(q)
        PROVE  UpToDate(q)'
    <3>1. Stars(q)' = Stars(q)
      BY <2>3, SameStars DEF vars, tables, Visible, Found, Exists
    <3>2. QED
      BY <2>3, <3>1 DEF UpToDate, Owed, Of, vars, tables, calls, history
  <2>4. QED
    BY <2>1, <2>2, <2>3, Acts
<1>3. (\A q \in Products : UpToDate(q)) => RatingsFollowReviews
  BY DEF UpToDate, RatingsFollowReviews
<1>4. QED
  BY <1>1, <1>2, <1>3, ReviewsAlways, PTL DEF Spec

(***************************************************************************)
(* Moderation.                                                             *)
(***************************************************************************)
LEMMA ShownAgain ==
  ASSUME ReviewInv, NEW p \in Processes, Act(p), NEW r \in Reviews,
         Exists(r), ~Visible(r), Visible(r)'
  PROVE  /\ p \in Calls /\ Of(p) = r /\ stage'[p] = "aggregate"
         /\ stage[p] = "approve" \/ (stage[p] \in Edits /\ p \in raced)
<1> USE DEF ReviewInv, ReviewsType, Goto
<1>1. Publishes(p)
  BY CountSteps, RowSteps DEF Visible, Found, Exists
<1>2. PICK row \in Review : Written(p, row)
  BY <1>1, Publishing
<1>3. Of(p) = r
  BY <1>2 DEF Written, Visible, Found, Exists
<1>4. p \in Calls
  <2>1. ASSUME p \in Reviews PROVE ~Exists(p)
    BY <1>1, <2>1, Sorts DEF Publishes, Insert, Creating
  <2>2. QED
    BY <1>3, <2>1, Sorts DEF Processes
<1>5. review[r] \in Review
  BY DEF Exists
<1>6. Save(p)
  <2>1. ASSUME Remove(p) PROVE FALSE
    <3>1. review'[r] = [review[r] EXCEPT !.deleted = TRUE]
      BY <1>3, <2>1 DEF Remove, Written
    <3>2. review'[r].deleted
      BY <1>5, <3>1 DEF Review
    <3>3. QED
      BY <3>2 DEF Visible, Found
  <2>2. QED
    BY <1>1, <1>4, <2>1, Sorts DEF Publishes
<1>7. /\ stage[p] \in Edits /\ stage'[p] = "aggregate" /\ review'[r] = copy[p]
  BY <1>3, <1>4, <1>6, Sorts DEF Save, Written
<1>8. CASE p \notin raced /\ stage[p] # "approve"
  <2>1. copy[p] \in Edited(stage[p], review[r]) /\ Found(r)
    BY <1>3, <1>4, <1>7, <1>8 DEF Holding
  <2>2. /\ copy[p].deleted = review[r].deleted
        /\ copy[p].status = review[r].status \/ copy[p].status # "APPROVED"
    BY <1>5, <1>7, <1>8, <2>1, EditedType
  <2>3. review'[r].status = "APPROVED"
    BY DEF Visible
  <2>4. QED
    BY <1>7, <2>1, <2>2, <2>3 DEF Visible
<1>9. QED
  BY <1>3, <1>4, <1>7, <1>8

(* A review that was rejected, hidden or deleted is shown again only by    *)
(* approve, or by a save of the row as it was loaded before: an author     *)
(* cannot bring it back by an edit.                                        *)
THEOREM TakenDown == Spec => TakenDownStays
<1> DEFINE Excused ==
      \A r \in Reviews :
        Exists(r) /\ ~Visible(r) /\ Visible(r)' =>
          \E c \in Calls : Of(c) = r /\ stage'[c] = "aggregate"
                           /\ \/ stage[c] = "approve"
                              \/ stage[c] \in Edits /\ c \in raced
<1>1. ReviewInv /\ [Next]_vars => [Excused]_vars
  <2>1. ASSUME ReviewInv, NEW u \in Updates, Touch(u) PROVE Excused
    BY <2>1, Touching DEF Visible, Found, Exists
  <2>2. QED
    BY <2>1, ShownAgain, Acts
<1>2. QED
  BY <1>1, ReviewsAlways, PTL DEF Spec, TakenDownStays

(***************************************************************************)
(* The count of helpful votes.                                             *)
(***************************************************************************)
At(r, at) == {c \in Calls : Of(c) = r /\ stage[c] = at}
Votes(r) == {v \in voted : Of(v) = r}

LEMMA FiniteCounts ==
  ASSUME ReviewsType, ReviewsType', NEW r, NEW at
  PROVE  /\ IsFiniteSet(At(r, at)) /\ Cardinality(At(r, at)) \in Nat
         /\ IsFiniteSet(At(r, at)') /\ Cardinality(At(r, at)') \in Nat
         /\ IsFiniteSet(Votes(r)) /\ Cardinality(Votes(r)) \in Nat
         /\ IsFiniteSet(Votes(r)') /\ Cardinality(Votes(r)') \in Nat
<1>1. /\ At(r, at) \subseteq Calls /\ At(r, at)' \subseteq Calls
      /\ Votes(r) \subseteq Calls /\ Votes(r)' \subseteq Calls
  BY DEF At, Votes, ReviewsType
<1>2. QED
  BY <1>1, Sorts, FS_Subset, FS_CardinalityType

(* What VotesCounted says, before and after a step.                        *)
Balanced(r) ==
  review[r].helpfulCount + Cardinality(At(r, "increment")) - Cardinality(At(r, "decrement"))
    = Cardinality(Votes(r))

LEMMA CountedBalance ==
  ASSUME NEW r
  PROVE  /\ VotesCounted(r) <=> (Exists(r) => Balanced(r))
         /\ VotesCounted(r)' <=> (Exists(r)' => Balanced(r)')
         /\ Balanced(r)' <=>
              review'[r].helpfulCount + Cardinality(At(r, "increment")')
                - Cardinality(At(r, "decrement")') = Cardinality(Votes(r)')
BY DEF VotesCounted, Counting, Balanced, At, Votes

(* A step that leaves the votes of a review, the calls that count them and *)
(* their number as they are leaves the balance as it is.                   *)
LEMMA BalanceStays ==
  ASSUME NEW r \in Reviews, VotesCounted(r),
         Exists(r)' => Exists(r) /\ review'[r].helpfulCount = review[r].helpfulCount,
         Votes(r)' = Votes(r),
         \A at \in {"increment", "decrement"} : At(r, at)' = At(r, at)
  PROVE  VotesCounted(r)'
BY CountedBalance DEF Balanced

(* A step moves its call, and only a count or a vote moves it to or from   *)
(* counting.                                                               *)
LEMMA Moves ==
  ASSUME ReviewInv, NEW p \in Processes, Act(p)
  PROVE  stage'[p] # stage[p]
<1> USE DEF ReviewInv, ReviewsType, Goto, Edits
<1>1. CASE p \in Reviews /\ (Look(p) \/ Insert(p))
  BY <1>1 DEF Look, Insert
<1>2. CASE p \in Calls /\ Load(p)
  BY <1>2 DEF Load
<1>3. CASE p \in Calls /\ (Save(p) \/ Remove(p) \/ Vote(p) \/ Unvote(p) \/ Count(p))
  BY <1>3 DEF Save, Remove, Vote, Unvote, Count
<1>4. CASE Aggregate(p) \/ WriteRating(p) \/ Crash(p)
  BY <1>4 DEF Aggregate, WriteRating, Crash
<1>5. QED
  BY <1>1, <1>2, <1>3, <1>4 DEF Act

LEMMA AtStays ==
  ASSUME ReviewsType, NEW p \in Processes, Act(p), NEW r \in Reviews, NEW at,
         p \in Calls /\ Of(p) = r => stage[p] # at /\ stage'[p] # at
  PROVE  At(r, at)' = At(r, at)
BY Local, Sorts DEF At, Of

(* The calls about other reviews do not touch this one.                    *)
LEMMA OthersKeepCount ==
  ASSUME ReviewInv, NEW p \in Processes, Act(p), NEW r \in Reviews,
         Of(p) # r, VotesCounted(r)
  PROVE  VotesCounted(r)'
<1> USE DEF ReviewInv, ReviewsType
<1>1. review'[r] = review[r]
  <2>1. CASE Publishes(p)
    BY <2>1, Publishing DEF Written
  <2>2. CASE p \in Calls /\ Count(p)
    BY <2>2, CountSteps
  <2>3. QED
    BY <2>1, <2>2, RowSteps
<1>2. Votes(r)' = Votes(r)
  <2>1. CASE p \in Calls /\ Vote(p)
    BY <2>1 DEF Vote, Votes, Of
  <2>2. CASE p \in Calls /\ Unvote(p)
    <3>1. Of(copy[p]) = Of(p) /\ voted' = voted \ {copy[p]}
      BY <2>2 DEF Unvote, Holding
    <3>2. QED
      BY <3>1 DEF Votes, Of
  <2>3. CASE ~(p \in Calls /\ (Vote(p) \/ Unvote(p)))
    <3>1. voted' = voted
      BY <2>3, Publishing DEF Act, Look, Insert, Load, Save, Remove, Count, Aggregate,
         WriteRating, Crash, tables
    <3>2. QED
      BY <3>1 DEF Votes, Of
  <2>4. QED
    BY <2>1, <2>2, <2>3
<1>3. \A at : At(r, at)' = At(r, at)
  BY AtStays
<1>4. QED
  BY <1>1, <1>2, <1>3, BalanceStays DEF Exists

(* A new review has no votes.                                              *)
LEMMA NewIsCounted ==
  ASSUME ReviewInv, ReviewInv', NEW r \in Reviews, Act(r), VotesCounted(r)
  PROVE  VotesCounted(r)'
<1> USE DEF ReviewInv, ReviewsType
<1>1. r \in Processes /\ Of(r) = r /\ r \notin Calls
  BY Sorts
<1>2. /\ \A at : At(r, at)' = At(r, at)
      /\ Votes(r)' = Votes(r)
  <2>1. voted' = voted
    BY <1>1, Publishing DEF Act, Look, Insert, Aggregate, WriteRating, Crash, tables
  <2>2. QED
    BY <1>1, <2>1, AtStays DEF Votes, Of
<1>3. CASE Insert(r) /\ Unique(r)
  <2>1. ~Exists(r)
    BY <1>3 DEF Insert, Creating
  <2>2. At(r, "increment") = {} /\ At(r, "decrement") = {} /\ Votes(r) = {}
    BY <2>1 DEF At, Votes, Grounded
  <2>3. review'[r].helpfulCount = 0
    BY <1>1, <1>3, Inserting DEF Written
  <2>4. Cardinality({}) = 0
    BY FS_EmptySet
  <2>5. At(r, "increment")' = {} /\ At(r, "decrement")' = {} /\ Votes(r)' = {}
    BY <1>2, <2>2
  <2>6. Balanced(r)'
    <3>1. review'[r].helpfulCount + Cardinality(At(r, "increment")')
                - Cardinality(At(r, "decrement")') = Cardinality(Votes(r)')
      <4>1. /\ Cardinality(At(r, "increment")') = 0 /\ Cardinality(At(r, "decrement")') = 0
            /\ Cardinality(Votes(r)') = 0
        BY <2>4, <2>5
      <4>2. QED
        BY <2>3, <4>1
    <3>2. QED
      BY <3>1, CountedBalance
  <2>7. QED
    BY <2>6, CountedBalance
<1>4. CASE ~(Insert(r) /\ Unique(r))
  <2>1. review' = review
    BY <1>1, <1>4, RowSteps DEF Publishes
  <2>2. QED
    BY <1>2, <2>1, BalanceStays DEF Exists
<1>5. QED
  BY <1>3, <1>4

(* A save of the row as it still is, or a deletion, keeps the count.       *)
LEMMA PublishedIsCounted ==
  ASSUME ReviewInv, NEW c \in Calls, Save(c) \/ Remove(c), c \notin raced,
         VotesCounted(Of(c))
  PROVE  VotesCounted(Of(c))'
<1> USE DEF ReviewInv, ReviewsType, Goto, Edits
<1> DEFINE r == Of(c)
<1>1. r \in Reviews /\ c \in Processes /\ r' = r /\ Act(c) /\ Exists(r) /\ review[r] \in Review
  BY Sorts DEF Act, Of, Save, Remove, Grounded, Exists
<1>2. review'[r].helpfulCount = review[r].helpfulCount
  <2>1. CASE Save(c)
    <3>1. copy[c] \in Edited(stage[c], review[r]) /\ stage[c] \in Edits
      BY <2>1 DEF Save, Holding
    <3>2. copy[c].helpfulCount = review[r].helpfulCount
      BY <1>1, <3>1, EditedType
    <3>3. QED
      BY <1>1, <2>1, <3>2 DEF Save, Written
  <2>2. CASE Remove(c)
    BY <1>1, <2>2 DEF Remove, Written, Review
  <2>3. QED
    BY <2>1, <2>2
<1>3. Votes(r)' = Votes(r)
  BY <1>1 DEF Save, Remove, Votes, Of
<1>4. \A at \in {"increment", "decrement"} : At(r, at)' = At(r, at)
  BY <1>1, AtStays DEF Save, Remove
<1>5. QED
  BY <1>1, <1>2, <1>3, <1>4, BalanceStays

(* A vote waits to be counted.                                             *)
LEMMA VoteIsCounted ==
  ASSUME ReviewInv, ReviewsType', NEW c \in Calls, Vote(c), VotesCounted(Of(c))
  PROVE  VotesCounted(Of(c))'
<1> USE DEF ReviewInv, ReviewsType, Goto
<1> DEFINE r == Of(c)
<1>1. /\ r \in Reviews /\ c \in Processes /\ r' = r /\ Act(c) /\ Exists(r)
      /\ review' = review /\ review[r].helpfulCount \in Int
  BY Sorts DEF Act, Of, Vote, Grounded, Exists, Review
<1>2. CASE VotesOf(r, UserOf[c]) = {}
  <2>1. c \notin Votes(r) /\ Votes(r)' = Votes(r) \cup {c}
    BY <1>1, <1>2 DEF Vote, Votes, VotesOf, Of
  <2>2. c \notin At(r, "increment") /\ At(r, "increment")' = At(r, "increment") \cup {c}
    BY <1>1, <1>2, Sorts DEF Vote, At, Of
  <2>3. At(r, "decrement")' = At(r, "decrement")
    BY <1>1, <1>2, AtStays DEF Vote
  <2>a. IsFiniteSet(Votes(r)) /\ IsFiniteSet(At(r, "increment"))
    BY FiniteCounts
  <2>4. Cardinality(Votes(r) \cup {c}) = Cardinality(Votes(r)) + 1
    BY <2>1, <2>a, FS_AddElement
  <2>5. Cardinality(At(r, "increment") \cup {c}) = Cardinality(At(r, "increment")) + 1
    BY <2>2, <2>a, FS_AddElement
  <2>6. /\ review'[r].helpfulCount = review[r].helpfulCount
        /\ Cardinality(Votes(r)') = Cardinality(Votes(r)) + 1
        /\ Cardinality(At(r, "increment")') = Cardinality(At(r, "increment")) + 1
        /\ Cardinality(At(r, "decrement")') = Cardinality(At(r, "decrement"))
    BY <1>1, <2>1, <2>2, <2>3, <2>4, <2>5
  <2>7. Balanced(r)
    BY <1>1, CountedBalance
  <2>8. review'[r].helpfulCount + Cardinality(At(r, "increment")')
          - Cardinality(At(r, "decrement")') = Cardinality(Votes(r)')
    BY <1>1, <2>6, <2>7, FiniteCounts DEF Balanced
  <2>9. QED
    BY <1>1, <2>8, CountedBalance
<1>3. CASE VotesOf(r, UserOf[c]) # {}
  <2>1. voted' = voted /\ \A at \in {"increment", "decrement"} : stage[c] # at /\ stage'[c] # at
    BY <1>1, <1>3 DEF Vote
  <2>2. QED
    BY <1>1, <2>1, AtStays, BalanceStays DEF Votes, Of, Exists
<1>4. QED
  BY <1>2, <1>3

(* A vote that is taken back waits to be taken off.                        *)
LEMMA UnvoteIsCounted ==
  ASSUME ReviewInv, ReviewsType', NEW c \in Calls, Unvote(c), c \notin raced, VotesCounted(Of(c))
  PROVE  VotesCounted(Of(c))'
<1> USE DEF ReviewInv, ReviewsType, Goto
<1> DEFINE r == Of(c)
<1>1. /\ r \in Reviews /\ c \in Processes /\ r' = r /\ Act(c) /\ Exists(r)
      /\ review' = review /\ review[r].helpfulCount \in Int
  BY Sorts DEF Act, Of, Unvote, Grounded, Exists, Review
<1>2. copy[c] \in voted /\ Of(copy[c]) = r /\ voted' = voted \ {copy[c]}
  BY DEF Unvote, Holding
<1>3. copy[c] \in Votes(r) /\ Votes(r)' = Votes(r) \ {copy[c]}
  BY <1>2 DEF Votes, Of
<1>4. c \notin At(r, "decrement") /\ At(r, "decrement")' = At(r, "decrement") \cup {c}
  BY <1>1, Sorts DEF Unvote, At, Of
<1>5. At(r, "increment")' = At(r, "increment")
  BY <1>1, AtStays DEF Unvote
<1>a. IsFiniteSet(Votes(r)) /\ IsFiniteSet(At(r, "decrement"))
  BY FiniteCounts
<1>6. Cardinality(Votes(r) \ {copy[c]}) = Cardinality(Votes(r)) - 1
  BY <1>3, <1>a, FS_RemoveElement
<1>7. Cardinality(At(r, "decrement") \cup {c}) = Cardinality(At(r, "decrement")) + 1
  BY <1>4, <1>a, FS_AddElement
<1>8. /\ review'[r].helpfulCount = review[r].helpfulCount
      /\ Cardinality(Votes(r)') = Cardinality(Votes(r)) - 1
      /\ Cardinality(At(r, "decrement")') = Cardinality(At(r, "decrement")) + 1
      /\ Cardinality(At(r, "increment")') = Cardinality(At(r, "increment"))
  BY <1>1, <1>3, <1>4, <1>5, <1>6, <1>7
<1>9. Balanced(r)
  BY <1>1, CountedBalance
<1>10. review'[r].helpfulCount + Cardinality(At(r, "increment")')
         - Cardinality(At(r, "decrement")') = Cardinality(Votes(r)')
  BY <1>1, <1>8, <1>9, FiniteCounts DEF Balanced
<1>11. QED
  BY <1>1, <1>10, CountedBalance

(* A count settles one of the votes that wait.                             *)
LEMMA CountIsCounted ==
  ASSUME ReviewInv, ReviewsType', NEW c \in Calls, Count(c), VotesCounted(Of(c))
  PROVE  VotesCounted(Of(c))'
<1> USE DEF ReviewInv, ReviewsType, Goto
<1> DEFINE r == Of(c)
<1>1. /\ r \in Reviews /\ c \in Processes /\ r' = r /\ Act(c) /\ Exists(r)
      /\ review[r] \in Review /\ review[r].helpfulCount \in Int
  BY Sorts DEF Act, Of, Count, Grounded, Exists, Review
<1>2. review'[r].helpfulCount = review[r].helpfulCount + Change(c)
  BY <1>1 DEF Count, Review
<1>3. Votes(r)' = Votes(r)
  BY DEF Count, Votes, Of
<1>4. Balanced(r)
  BY <1>1, CountedBalance
<1>5. CASE stage[c] = "increment"
  <2>1. c \in At(r, "increment") /\ At(r, "increment")' = At(r, "increment") \ {c}
    BY <1>1, <1>5, Sorts DEF Count, At, Of
  <2>2. At(r, "decrement")' = At(r, "decrement")
    BY <1>1, <1>5, AtStays DEF Count
  <2>3. Cardinality(At(r, "increment")') = Cardinality(At(r, "increment")) - 1
    BY <2>1, FiniteCounts, FS_RemoveElement
  <2>4. Change(c) = 1
    BY <1>5 DEF Change
  <2>5. review'[r].helpfulCount + Cardinality(At(r, "increment")')
          - Cardinality(At(r, "decrement")') = Cardinality(Votes(r)')
    BY <1>1, <1>2, <1>3, <1>4, <2>2, <2>3, <2>4, FiniteCounts DEF Balanced
  <2>6. QED
    BY <1>1, <2>5, CountedBalance
<1>6. CASE stage[c] = "decrement"
  <2>1. c \in At(r, "decrement") /\ At(r, "decrement")' = At(r, "decrement") \ {c}
    BY <1>1, <1>6, Sorts DEF Count, At, Of
  <2>2. At(r, "increment")' = At(r, "increment")
    BY <1>1, <1>6, AtStays DEF Count
  <2>3. Cardinality(At(r, "decrement")') = Cardinality(At(r, "decrement")) - 1
    BY <2>1, FiniteCounts, FS_RemoveElement
  <2>4. Change(c) = -1
    BY <1>6 DEF Change
  <2>5. review'[r].helpfulCount + Cardinality(At(r, "increment")')
          - Cardinality(At(r, "decrement")') = Cardinality(Votes(r)')
    BY <1>1, <1>2, <1>3, <1>4, <2>2, <2>3, <2>4, FiniteCounts DEF Balanced
  <2>6. QED
    BY <1>1, <2>5, CountedBalance
<1>7. QED
  BY <1>5, <1>6 DEF Count

(* The other steps of a call have nothing to do with votes; dying between  *)
(* the two statements has.                                                 *)
LEMMA RestIsCounted ==
  ASSUME ReviewInv, NEW c \in Calls, VotesCounted(Of(c)),
         Load(c) \/ Aggregate(c) \/ WriteRating(c)
           \/ (Crash(c) /\ stage[c] \notin {"increment", "decrement"})
  PROVE  VotesCounted(Of(c))'
<1> USE DEF ReviewInv, ReviewsType, Goto, Edits
<1>1. Of(c) \in Reviews /\ c \in Processes /\ Act(c) /\ (Of(c))' = Of(c)
  BY Sorts DEF Act, Of
<1>2. review' = review /\ voted' = voted
  BY DEF Load, Aggregate, WriteRating, Crash, tables
<1>3. \A at \in {"increment", "decrement"} : stage[c] # at /\ stage'[c] # at
  BY <1>1 DEF Load, Aggregate, WriteRating, Crash
<1>4. QED
  BY <1>1, <1>2, <1>3, AtStays, BalanceStays DEF Votes, Of, Exists

LEMMA Miscounted ==
  ASSUME ReviewInv, ReviewInv', NEW p \in Processes, Act(p), NEW r \in Reviews,
         VotesCounted(r), ~VotesCounted(r)'
  PROVE  /\ p \in Calls /\ Of(p) = r /\ stage'[p] # stage[p]
         /\ \/ p \in raced
            \/ stage[p] \in {"increment", "decrement"} /\ review' = review
<1>1. Of(p) = r /\ stage'[p] # stage[p]
  BY OthersKeepCount, Moves
<1>2. p \in Calls
  BY <1>1, NewIsCounted, Sorts DEF Processes
<1>3. CASE p \notin raced
  <2>1. Crash(p) /\ stage[p] \in {"increment", "decrement"}
    BY <1>1, <1>2, <1>3, PublishedIsCounted, VoteIsCounted, UnvoteIsCounted, CountIsCounted,
       RestIsCounted, Sorts DEF Act, ReviewInv, Of
  <2>2. QED
    BY <1>1, <1>2, <2>1 DEF Crash, tables
<1>4. QED
  BY <1>1, <1>2, <1>3

(* The count of helpful votes goes wrong only when a call that another one *)
(* has overtaken overrides it, or when the process dies between the vote   *)
(* and its count.                                                          *)
THEOREM RacesMiscount == Spec => OnlyRacesMiscount
<1> DEFINE Excused ==
      \A r \in Reviews :
        VotesCounted(r) /\ ~VotesCounted(r)' =>
          \E c \in Calls : Of(c) = r /\ stage'[c] # stage[c]
                           /\ \/ c \in raced
                              \/ stage[c] \in {"increment", "decrement"} /\ review' = review
<1>1. ReviewInv /\ ReviewInv' /\ [Next]_vars => [Excused]_vars
  <2>1. ASSUME ReviewInv, NEW u \in Updates, Touch(u) PROVE Excused
    <3>1. review' = review /\ voted' = voted /\ stage' = stage
      BY <2>1, Touching
    <3>2. \A r \in Reviews : Votes(r)' = Votes(r) /\ \A at : At(r, at)' = At(r, at)
      BY <3>1 DEF Votes, At, Of
    <3>3. QED
      BY <3>1, <3>2, BalanceStays DEF Exists
  <2>2. QED
    BY <2>1, Miscounted, Acts
<1>2. QED
  BY <1>1, ReviewsAlways, PTL DEF Spec, OnlyRacesMiscount

(* Every variable of reviews, votes and ratings keeps its type, for any    *)
(* number of products, reviews and calls.                                  *)
THEOREM TypeCorrect == Spec => []ReviewsType
<1>1. ReviewInv => ReviewsType
  BY DEF ReviewInv
<1>2. QED
  BY <1>1, ReviewsAlways, PTL
=============================================================================
