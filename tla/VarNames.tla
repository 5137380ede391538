-------------------------------- MODULE VarNames -------------------------------
(***************************************************************************)
(* The list of Cloud Variables by their names: the names as struct         *)
(* canopy_var keeps them, canopy_device_var_declare, the declarations that *)
(* c_json_parse_vardcl takes from an answer, and find_name, with which     *)
(* both of them, the parser of the tag vars and                            *)
(* canopy_device_get_var_by_name look for a variable.                      *)
(***************************************************************************)
EXTENDS Integers, SequencesExt, FiniteSetsExt

CONSTANTS
    Cap,        \* CANOPY_VAR_NAME_MAX_LENGTH, 128
    Spellings,  \* the names in use, as sequences of characters
    MaxVars     \* bound: how many structs a device comes to have

\* A name that fills the array of a parser is not among them.
ASSUME VarNamesAssumption ==
    /\ Cap \in Nat \ 0..2
    /\ MaxVars \in Nat
    /\ \A s \in Spellings : s \in Seq(STRING) /\ Len(s) < Cap

VARIABLES
    chain,     \* device->vars: the names in the structs, the newest first
    handle,    \* the struct that the application was given for each name it declared,
               \*   counted from the end of the list; 0 if it has none
    used       \* history: the names that were declared, by the application or the server

names == <<chain, handle, used>>

-------------------------------------------------------------------------------

Cut(s, n) == SubSeq(s, 1, Min({Len(s), n}))

\* create_variable: strncpy to an array of zeroes.
Kept(s) == Cut(s, Cap - 2)

\* MUTANT: no more of a name is compared than is kept of it.
ComparesKept(kept, s) == kept = Cut(s, Cap - 2)

\* The comparison in find_name.
Compares(kept, s) == kept = Cut(s, Cap - 1)

\* find_name: the place of the struct in the list, 0 if there is none.
FindName(s) == SelectInSeq(chain, LAMBDA kept : Compares(kept, s))

\* Counted from the end, the place of a struct stays the same.
FromEnd(k) == IF k = 0 THEN 0 ELSE Len(chain) + 1 - k

\* Both of the declaring functions: a struct of another type is taken as it is.
Declared(s) ==
    /\ IF FindName(s) # 0 THEN UNCHANGED chain
       ELSE Len(chain) < MaxVars /\ chain' = <<Kept(s)>> \o chain
    /\ used' = used \union {s}

\* canopy_device_var_declare
DeclareVar(s) ==
    /\ Declared(s)
    /\ handle' = [handle EXCEPT ![s] = IF FindName(s) # 0 THEN FromEnd(FindName(s)) ELSE Len(chain) + 1]

\* An entry of the tag var_decls.
ParseDecl(s) == Declared(s) /\ UNCHANGED handle

NamesInit ==
    /\ chain = <<>>
    /\ handle = [s \in Spellings |-> 0]
    /\ used = {}

NamesNext == \E s \in Spellings : DeclareVar(s) \/ ParseDecl(s)

-------------------------------------------------------------------------------

NamesTypeOK ==
    /\ chain \in Seq({Kept(s) : s \in Spellings}) /\ Len(chain) =< MaxVars
    /\ handle \in [Spellings -> 0..Len(chain)]
    /\ used \subseteq Spellings

Long(s) == Len(s) > Cap - 2

\* A name that was declared, by whichever side and however often, has one struct, the one
\* that the application holds and the parsers find: as long as no name too long to be
\* kept was declared that begins with it.  Such a name is never found again, by either
\* side, and the struct that was made for it answers to its beginning.
StructPerName ==
    \A s \in Spellings :
       /\ Long(s) => FindName(s) = 0
       /\ FindName(s) # 0 => chain[FindName(s)] = s
       /\ s \in used /\ ~Long(s) /\ (\A t \in used : Long(t) => Kept(t) # s) =>
             /\ Cardinality({k \in DOMAIN chain : chain[k] = s}) = 1
             /\ handle[s] \in {0, FromEnd(FindName(s))}

===============================================================================
