------------------------------- MODULE SymTab -------------------------------
(***************************************************************************)
(* The symbol table, symtab.c.  A table is the chain of open scopes, the   *)
(* global scope first and `current' last; a scope maps the names declared  *)
(* in it to their Symbol.  Insertion refuses a name the scope has, so the  *)
(* linked list of a scope never holds a name twice and is a function.      *)
(***************************************************************************)
EXTENDS LumisAst

SymKind == {"VARIABLE", "FUNCTION", "PARAMETER"}

(* params is param_types, which only a function has.                       *)
Symbol == [kind : SymKind, type : DataType, params : Seq(DataType)]

Variable(type)         == [kind |-> "VARIABLE", type |-> type, params |-> <<>>]
Parameter(type)        == [kind |-> "PARAMETER", type |-> type, params |-> <<>>]
Signature(type, types) == [kind |-> "FUNCTION", type |-> type, params |-> types]

(* symtab_lookup answers NULL.                                             *)
NoSymbol == [kind |-> "NONE", type |-> "VOID", params |-> <<>>]

EmptyScope == [name \in {} |-> NoSymbol]

symtab_init == <<EmptyScope>>

Current(tab) == tab[Len(tab)]
Global(tab)  == tab[1]

symtab_enter_scope(tab) == Append(tab, EmptyScope)

(* The global scope has no parent and is never left.                       *)
symtab_leave_scope(tab) ==
    IF Len(tab) > 1 THEN SubSeq(tab, 1, Len(tab) - 1) ELSE tab

DeclaredHere(tab, name) == name \in DOMAIN Current(tab)

(* Mutant: the symbol goes to the global scope.                            *)
symtab_insert_Global(tab, name, symbol) ==
    IF DeclaredHere(tab, name) THEN tab
    ELSE [tab EXCEPT ![1] =
             [n \in DOMAIN Global(tab) \cup {name} |->
                 IF n \in DOMAIN Global(tab) THEN Global(tab)[n] ELSE symbol]]

(* A name the current scope already has keeps its first symbol.            *)
symtab_insert(tab, name, symbol) ==
    IF DeclaredHere(tab, name) THEN tab
    ELSE [tab EXCEPT ![Len(tab)] =
             [n \in DOMAIN Current(tab) \cup {name} |->
                 IF n \in DOMAIN Current(tab) THEN Current(tab)[n] ELSE symbol]]

(* Mutant: the outermost scope that declares the name decides.             *)
symtab_lookup_Outermost(tab, name) ==
    LET having == {d \in 1 .. Len(tab) : name \in DOMAIN tab[d]}
        Outermost(d) == d \in having /\ \A c \in having : d <= c
    IN  IF having = {} THEN NoSymbol
        ELSE tab[CHOOSE d \in having : Outermost(d)][name]

(* The innermost open scope that declares the name decides.                *)
symtab_lookup(tab, name) ==
    LET having == {d \in 1 .. Len(tab) : name \in DOMAIN tab[d]}
        Innermost(d) == d \in having /\ \A c \in having : c <= d
    IN  IF having = {} THEN NoSymbol
        ELSE tab[CHOOSE d \in having : Innermost(d)][name]

IsSymbolTable(tab) ==
    /\ Len(tab) > 0
    /\ \A d \in 1 .. Len(tab) : \A name \in DOMAIN tab[d] : tab[d][name] \in Symbol
=============================================================================
