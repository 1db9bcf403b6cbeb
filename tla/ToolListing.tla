---------------------------- MODULE ToolListing ----------------------------
(***************************************************************************)
(* A client's walk over `tools/list` (`handle_tools_list` of `server.rs`,  *)
(* `pagination.rs`): it asks for pages until one comes without a           *)
(* `nextCursor`.  The server keeps nothing between the pages, and what it  *)
(* lists may change: a dispatcher lists what it likes at each request.     *)
(*                                                                         *)
(* A tool is its name, and names are numbers in their order; 0 stands for  *)
(* no cursor.  A cursor is opaque to the client and comes back unchanged,  *)
(* so it is the key it encodes.                                            *)
(***************************************************************************)
EXTENDS Integers, FiniteSets

CONSTANTS
    Tools,      \* the names a tool may have
    PageSize    \* list_page_size, 0 for none

ASSUME ListingAssumption ==
    /\ Tools \subseteq Nat \ {0} /\ IsFiniteSet(Tools)
    /\ PageSize \in Nat

VARIABLES
    listed,     \* the names listed for the caller now
    cursor,     \* the cursor the client sends next
    served,     \* how often each name was on a page of the walk
    steady,     \* the names listed since the walk began (history)
    walking     \* no page without a nextCursor came yet

listVars == <<listed, cursor, served, steady, walking>>

ListInit ==
    /\ listed \in SUBSET Tools /\ steady = listed
    /\ cursor = 0 /\ walking = TRUE
    /\ served = [k \in Tools |-> 0]

\* Mutant: the cursor is an offset, the number of names already served.
RestByOffset ==
    {k \in listed : Cardinality({j \in listed : j < k})
                        >= Cardinality({j \in Tools : served[j] > 0})}

\* The names after the cursor.
Rest == {k \in listed : k > cursor}

\* The first PageSize of the names that are left, in their order.
Truncated(rest) == {k \in rest : Cardinality({j \in rest : j < k}) < PageSize}

Serve(page) == served' = [k \in Tools |-> IF k \in page THEN served[k] + 1 ELSE served[k]]

\* One `tools/list`: a page that stops short of the end carries the cursor.
ListPage ==
    /\ walking
    /\ IF PageSize > 0 /\ Cardinality(Rest) > PageSize
       THEN /\ Serve(Truncated(Rest))
            /\ \E last \in Truncated(Rest) : /\ \A k \in Truncated(Rest) : k <= last
                                             /\ cursor' = last
            /\ UNCHANGED walking
       ELSE Serve(Rest) /\ walking' = FALSE /\ UNCHANGED cursor
    /\ UNCHANGED <<listed, steady>>

\* What the caller is listed changes between two requests.
ListChange ==
    /\ walking
    /\ listed' \in SUBSET Tools
    /\ steady' = steady \cap listed'
    /\ UNCHANGED <<cursor, served, walking>>

ListNext == ListPage \/ ListChange

ListSpec == ListInit /\ [][ListNext]_listVars

\* However the list changes under it, a walk serves no name twice, and by its end
\* it has served every name that was listed throughout.
PagesSeeAll ==
    /\ \A k \in Tools : served[k] <= 1
    /\ ~walking => \A k \in steady : served[k] = 1
=============================================================================
