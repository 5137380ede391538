----------------------------- MODULE FilterList -------------------------------
(***************************************************************************)
(* The chain of filters of a query (canopy_filters.c): a root with a head  *)
(* and a tail pointer, and filters that the caller owns and that point at  *)
(* their successors.  Nothing keeps the caller from appending a filter     *)
(* that is on the chain already; the model does it.                        *)
(***************************************************************************)
EXTENDS Integers, Sequences

CONSTANTS
    Filters,  \* the canopy_filter_t objects of the caller
    NoFilter  \* NULL for a pointer to one

ASSUME FilterListAssumption == NoFilter \notin Filters

\* ft->type, with the flag open of a parenthesis
Contents == {"TERM", "UNARY", "BOOLEAN", "PAREN open", "PAREN close"}

VARIABLES
    head, tail,     \* of the root
    link,           \* ft->next
    content,        \* ft->type and ft->onion
    append_result,  \* what the last call returned
    chain           \* history: the filters that the chain has to have, in order

chainVars == <<head, tail, link, content, append_result, chain>>

OnChain(f) == \E k \in DOMAIN chain : chain[k] = f

-------------------------------------------------------------------------------

\* MUTANT: next is not cleared again behind the link.
LinkedOnce(f) == [link EXCEPT ![f] = NoFilter, ![tail] = f]

\* append: next is cleared, the tail is linked to ft, next is cleared again.
Linked(f) == [link EXCEPT ![f] = NoFilter, ![tail] = f, ![f] = NoFilter]

\* MUTANT: the tail is not set.
FirstWithoutTail(f) ==
    /\ head = NoFilter
    /\ head' = f
    /\ link' = [link EXCEPT ![f] = NoFilter]
    /\ UNCHANGED tail

\* append, on a root that is empty.
First(f) ==
    /\ head = NoFilter
    /\ head' = f
    /\ tail' = f
    /\ link' = [link EXCEPT ![f] = NoFilter]

\* append, behind the tail.
Behind(f) ==
    /\ head # NoFilter
    /\ link' = Linked(f)
    /\ tail' = f
    /\ UNCHANGED head

\* append_term_filter, append_unary_filter, append_boolean_filter,
\* append_open_paren_filter, append_close_paren_filter.
AppendFilter(f, c) ==
    /\ content' = [content EXCEPT ![f] = c]
    /\ First(f) \/ Behind(f)
    /\ append_result' = "SUCCESS"
    /\ \/ ~OnChain(f) /\ chain' = Append(chain, f)
       \/ \E k \in DOMAIN chain : chain[k] = f /\ chain' = SubSeq(chain, 1, k)

\* root or ft is NULL.
NoFilterGiven ==
    /\ append_result' = "BAD_PARAM"
    /\ UNCHANGED <<head, tail, link, content, chain>>

-------------------------------------------------------------------------------

\* A zeroed root; the filters are whatever the caller's memory holds.
ChainInit ==
    /\ head = NoFilter
    /\ tail = NoFilter
    /\ link \in [Filters -> Filters \union {NoFilter}]
    /\ content \in [Filters -> Contents]
    /\ append_result = "NONE"
    /\ chain = <<>>

ChainNext ==
    \/ \E f \in Filters, c \in Contents : AppendFilter(f, c)
    \/ NoFilterGiven

ChainSpec == ChainInit /\ [][ChainNext]_chainVars

-------------------------------------------------------------------------------

ChainTypeOK ==
    /\ head \in Filters \union {NoFilter}
    /\ tail \in Filters \union {NoFilter}
    /\ head = NoFilter <=> tail = NoFilter
    /\ link \in [Filters -> Filters \union {NoFilter}]
    /\ content \in [Filters -> Contents]
    /\ append_result \in {"NONE", "SUCCESS", "BAD_PARAM"}
    /\ chain \in Seq(Filters)

\* The loop in append's comment, from the head along link, meets the filters in
\* the order in which they were appended, each once, and ends; the tail is the
\* last.  A filter that is appended again becomes the end of the chain, and those
\* that followed it are lost, but the chain never closes on itself.
ChainIsOrder ==
    /\ head = NoFilter <=> chain = <<>>
    /\ \A k \in DOMAIN chain :
          /\ k = 1 => head = chain[k]
          /\ k < Len(chain) => link[chain[k]] = chain[k + 1]
          /\ k = Len(chain) => tail = chain[k] /\ link[chain[k]] = NoFilter
    /\ \A j, k \in DOMAIN chain : chain[j] = chain[k] => j = k

===============================================================================
