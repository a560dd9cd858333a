--------------------------- MODULE RequestListing ---------------------------
(***************************************************************************)
(* RequestService.listRequests: a client walks through the requests it may *)
(* see, page by page, each page after the last id of the one before, while *)
(* rows are inserted and change their status.                              *)
(***************************************************************************)
EXTENDS Integers, Sequences, FiniteSets

CONSTANTS
  Walkers,   \* clients that list requests
  Queries,   \* what they ask for: [caller, status], AnyStatus for no filter
  AnyStatus,
  Limit      \* the page size

\* AuthGuard lets no other role in.
Roles == {"employee", "manager", "admin"}

ASSUME ListingAssumption ==
  /\ \A q \in Queries : {"caller", "status"} \subseteq DOMAIN q /\ q.caller.role \in Roles
  /\ Limit \in Nat \ {0}

VARIABLES
  walk,      \* what each client has got so far: see Walk
  steadily   \* the ids that have matched since its walk began

listingVars == <<walk, steadily>>

\* got: the ids in the order of the pages; cursor 0: none.
Walk(ids) ==
  [stage : {"resting", "walking", "finished"}, query : Queries, cursor : ids \cup {0}, got : Seq(ids)]

ListingInit ==
  /\ walk \in [Walkers -> {[stage |-> "resting", query |-> q, cursor |-> 0, got |-> <<>>] : q \in Queries}]
  /\ steadily = [w \in Walkers |-> {}]

-----------------------------------------------------------------------------
\* The where clause: employees are given their own requests, managers those of
\* their location, admins all.
Matches(q, request) ==
  /\ q.caller.role = "employee" => request.employee = q.caller.employee
  /\ q.caller.role = "manager" => request.location = q.caller.location
  /\ q.status \in {AnyStatus, request.status}

Matching(q, table) == {id \in DOMAIN table : Matches(q, table[id])}

\* ensureRequestScope, as getRequest applies it to a single request.
MayGet(caller, request) ==
  \/ caller.role = "admin"
  \/ caller.role = "manager" /\ caller.location = request.location
  \/ caller.role = "employee" /\ caller.employee = request.employee

\* Mutants: a page starts with the last row of the one before, and with as many
\* rows skipped as have been listed.
FromCursor(w, table) == {id \in Matching(walk[w].query, table) : id >= walk[w].cursor}
FromOffset(w, table) ==
  {id \in Matching(walk[w].query, table) :
     Cardinality({i \in Matching(walk[w].query, table) : i < id}) >= Len(walk[w].got)}
AfterCursor(w, table) == {id \in Matching(walk[w].query, table) : id > walk[w].cursor}

\* take(n), ordered by id.
First(n, ids) == {id \in ids : Cardinality({i \in ids : i < id}) < n}

InOrder(ids) ==
  [n \in 1..Cardinality(ids) |-> CHOOSE id \in ids : Cardinality({i \in ids : i <= id}) = n]

\* One row more than the page holds is fetched, to see whether others follow.
\* Mutant: it is not.
PageOnly(ids) == First(Limit, ids)
Fetch(ids) == First(Limit + 1, ids)

\* The client begins: from here on it counts which rows match all the time.
StartWalk(w, table) ==
  /\ walk[w].stage = "resting"
  /\ walk' = [walk EXCEPT ![w].stage = "walking"]
  /\ steadily' = [steadily EXCEPT ![w] = Matching(walk[w].query, table)]

\* listRequests: a page, and nextCursor if there are more.
NextPage(w, table) ==
  LET results == Fetch(AfterCursor(w, table))
      data == InOrder(First(Limit, results))
      hasMore == Cardinality(results) > Limit
  IN  /\ walk[w].stage = "walking"
      /\ walk' = [walk EXCEPT ![w] =
           [walk[w] EXCEPT !.stage = IF hasMore THEN "walking" ELSE "finished",
                           !.cursor = IF hasMore THEN data[Len(data)] ELSE 0,
                           !.got = walk[w].got \o data]]
      /\ UNCHANGED steadily

\* What a change of the table does to steadily.
Watch(table) ==
  steadily' = [w \in Walkers |-> steadily[w] \cap Matching(walk[w].query, table)]

=============================================================================
