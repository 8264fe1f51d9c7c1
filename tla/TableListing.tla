---------------------------- MODULE TableListing ----------------------------
(***************************************************************************)
(* list_table_names and table_exists (lancedb_ray/connection.py): the names *)
(* of a database's tables, page by page through list_tables(), or at once   *)
(* through table_names() where list_tables() is missing or refuses.  Other  *)
(* clients create and drop tables between two pages.                        *)
(*                                                                         *)
(* The service is external: it answers with names in their order, some of   *)
(* those after the page token, and a token whenever names are left.         *)
(***************************************************************************)
EXTENDS Integers, Sequences, FiniteSets, SequencesExt

CONSTANTS
  Thread,    \* threads of the process
  Name,      \* table names, as their places in the order of names
  Existing,  \* the tables there may be when the process starts
  Listers    \* what the connection's list_tables may be

ASSUME NameAssumption ==
  Name \subseteq Nat \ {0} /\ \A S \in Existing : S \subseteq Name /\ IsFiniteSet(S)
ASSUME ListersAssumption ==
  Listers \subseteq {"paged",     \* pages, a token while names are left
                     "eager",     \* pages, each with a token
                     "plain",     \* a bare list
                     "tokenless", \* pages, but takes no page_token: TypeError
                     "absent"}    \* no such attribute, or NotImplementedError

VARIABLES
  tables,       \* the tables there are
  lister,       \* what each thread's connection has for list_tables
  names,        \* names gathered by each thread's listing
  token,        \* its page_token, 0 for None
  throughout,   \* history: tables there since its listing began
  during        \* history: tables there at some time since

callerVars == <<lister, names, token, throughout, during>>
listingVars == <<tables, callerVars>>

ListingTypeOK ==
  /\ tables \subseteq Name
  /\ lister \in [Thread -> Listers \cup {"none"}]
  /\ names \in [Thread -> Seq(Name)]
  /\ token \in [Thread -> Nat]
  /\ throughout \in [Thread -> SUBSET Name]
  /\ during \in [Thread -> SUBSET Name]

ListingInit ==
  /\ tables \in Existing
  /\ lister = [t \in Thread |-> "none"]
  /\ names = [t \in Thread |-> <<>>]
  /\ token = [t \in Thread |-> 0]
  /\ throughout = [t \in Thread |-> {}]
  /\ during = [t \in Thread |-> {}]

-----------------------------------------------------------------------------
(* The service.                                                             *)

Sorted(s) == \A i, j \in DOMAIN s : i < j => s[i] < s[j]

InOrder(S) == CHOOSE s \in [1..Cardinality(S) -> S] : Sorted(s) /\ ToSet(s) = S

NamesAfter(last) == {n \in tables : n > last}

(* A page: the first of the names after the token, none only if there are   *)
(* none; a bare list has them all.                                          *)
Pages(t) ==
  LET left == InOrder(NamesAfter(token[t]))
  IN {page \in {SubSeq(left, 1, n) : n \in 0..Len(left)} :
        /\ page = <<>> => left = <<>>
        /\ lister[t] = "plain" => page = left}

(* The token of a page, 0 for none.  An eager service hands one out with    *)
(* what turns out to be its last page, and with an empty one.               *)
TokenOf(t, page) ==
  LET end == IF page = <<>> THEN token[t] ELSE Last(page)
  IN IF lister[t] = "eager" \/ (lister[t] # "plain" /\ NamesAfter(end) # {}) THEN end ELSE 0

-----------------------------------------------------------------------------
(* list_table_names                                                         *)

BeginListing(t) ==
  /\ \E kind \in Listers : lister' = [lister EXCEPT ![t] = kind]
  /\ names' = [names EXCEPT ![t] = <<>>]
  /\ token' = [token EXCEPT ![t] = 0]
  /\ throughout' = [throughout EXCEPT ![t] = tables]
  /\ during' = [during EXCEPT ![t] = tables]
  /\ UNCHANGED tables

(* list_tables raises what the fallback catches.                            *)
Unlistable(t) == lister[t] = "absent" \/ (lister[t] = "tokenless" /\ token[t] # 0)

(* Mutant: an empty page does not end the listing. *)
LastPageByToken(page, next) == next = 0

LastPage(page, next) == next = 0 \/ page = <<>>

(* Mutant: the fallback adds to the names gathered so far. *)
FallBackExtending(t) ==
  /\ Unlistable(t)
  /\ names' = [names EXCEPT ![t] = @ \o InOrder(tables)]
  /\ UNCHANGED <<lister, tables, token, throughout, during>>

(* table_names(): the pages gathered so far are dropped.                    *)
FallBack(t) ==
  /\ Unlistable(t)
  /\ names' = [names EXCEPT ![t] = InOrder(tables)]
  /\ UNCHANGED <<lister, tables, token, throughout, during>>

(* One call of list_tables(); last is whether the loop ends with it.        *)
NextPage(t, last) ==
  /\ ~Unlistable(t)
  /\ \E page \in Pages(t) :
       /\ last = LastPage(page, TokenOf(t, page))
       /\ names' = [names EXCEPT ![t] = @ \o page]
       /\ token' = [token EXCEPT ![t] = TokenOf(t, page)]
  /\ UNCHANGED <<lister, tables, throughout, during>>

-----------------------------------------------------------------------------
(* What a listing leaves behind: nothing.                                   *)
ForgetListing(t) ==
  /\ lister' = [lister EXCEPT ![t] = "none"]
  /\ names' = [names EXCEPT ![t] = <<>>]
  /\ token' = [token EXCEPT ![t] = 0]
  /\ throughout' = [throughout EXCEPT ![t] = {}]
  /\ during' = [during EXCEPT ![t] = {}]
  /\ UNCHANGED tables

-----------------------------------------------------------------------------
(* Other clients, next to the listings of the threads in callers.           *)

CreateTable(n, callers) ==
  /\ n \notin tables
  /\ tables' = tables \cup {n}
  /\ during' = [t \in Thread |-> IF t \in callers THEN during[t] \cup {n} ELSE during[t]]
  /\ UNCHANGED <<lister, names, token, throughout>>

DropTable(n) ==
  /\ n \in tables
  /\ tables' = tables \ {n}
  /\ throughout' = [t \in Thread |-> throughout[t] \ {n}]
  /\ UNCHANGED <<lister, names, token, during>>
=============================================================================
