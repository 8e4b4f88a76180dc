--------------------------- MODULE SchemaSymbols ---------------------------
(***************************************************************************)
(* The names of src/generate.mjs: which schema documents it accepts and    *)
(* under which identifiers each language declares what they define.  Pure; *)
(* SchemaGenerator reads and writes the files.                             *)
(*                                                                         *)
(* A name is a sequence of pieces.  A piece is a stem of letters or a stem *)
(* of digits, how its letters are written (id, Id, ID) and the separator   *)
(* before it.  Stems are atoms: no stem is made of others, so two names    *)
(* have the same text just when they have the same pieces.  A word of one  *)
(* letter is not a stem of letters.  Between two pieces there is at most   *)
(* one character; a text without letters and digits is the empty name.     *)
(***************************************************************************)
EXTENDS Naturals, Sequences, FiniteSets

CONSTANTS
  Letters,       \* stems of letters
  Digits,        \* stems of digits
  DartKeywords,  \* reserved words of Dart, all of them one stem
  NoDocument     \* what is left of a file that is missing or is not JSON with $defs

ASSUME SymbolsAssumption ==
  /\ Letters \cap Digits = {}
  /\ {"value", "v"} \subseteq Letters
  /\ DartKeywords \subseteq Letters

Separators == {"none", "underscore", "dash", "other"}

Pieces == [stem : Letters, cap : {"lower", "first", "all"}, sep : Separators]
          \cup [stem : Digits, cap : {"lower"}, sep : Separators]
Names == Seq(Pieces)

\* props[i].values: the string enum of a field, empty if it has none.
\* props[i].ref: the type its $ref names, or the empty name.
\* props[i].sound: its type list is one scalar plus null and no keyword is null.
Props == [name : Names, values : Seq(Names), ref : Names, sound : BOOLEAN]
Types == [name : Names, props : Seq(Props)]

-----------------------------------------------------------------------------
(* Conversions *)

Raise(piece) ==
  IF piece.stem \in Digits \/ piece.cap # "lower" THEN piece.cap ELSE "first"

Word(stem, cap) == [stem |-> stem, cap |-> cap, sep |-> "none"]

\* Runs of letters and digits, each with a capital head, joined.
Joined(name) ==
  [i \in 1..Len(name) |->
     [name[i] EXCEPT !.sep = "none",
                     !.cap = IF i = 1 \/ name[i].sep # "none"
                             THEN Raise(name[i]) ELSE name[i].cap]]

\* pascal; callers ask Portable first, where the code throws.
Portable(name) == name # <<>>
Pascal(name) ==
  IF name[1].stem \in Digits THEN <<Word("value", "first")>> \o Joined(name)
  ELSE Joined(name)

\* An underscore where a capital follows a small letter or a digit, then all small.
Snake(name) ==
  [i \in 1..Len(name) |->
     [name[i] EXCEPT !.cap = "lower",
                     !.sep = IF /\ i > 1
                                /\ name[i].sep = "none" /\ name[i].cap # "lower"
                                /\ name[i - 1].cap # "all"
                             THEN "underscore" ELSE name[i].sep]]

\* Mutant: the underscore is forgotten.
CamelAtDashes(name) ==
  [i \in 1..Len(name) |->
     IF name[i].sep = "dash" /\ name[i].cap = "lower"
     THEN Word(name[i].stem, Raise(name[i])) ELSE name[i]]

\* A small letter or a digit after _ or - is raised and joined; a capital is not.
Camel(name) ==
  [i \in 1..Len(name) |->
     IF name[i].sep \in {"underscore", "dash"} /\ name[i].cap = "lower"
     THEN Word(name[i].stem, Raise(name[i])) ELSE name[i]]

\* A Dart keyword gets an underscore behind it.
Guarded(name) ==
  [text |-> name,
   underscore |-> \E k \in DartKeywords : name = <<Word(k, "lower")>>]

DartIdent(name) == Guarded(Camel(name))

DartConstName(value) ==
  LET plain == [i \in 1..Len(value) |->
                  IF value[i].sep = "other" THEN [value[i] EXCEPT !.sep = "underscore"]
                  ELSE value[i]]
  IN Guarded(IF value[1].stem \in Digits
             THEN <<Word("v", "lower")>> \o Camel(plain) ELSE Camel(plain))

EnumTypeName(type, prop) == type.name \o Pascal(prop.name)

-----------------------------------------------------------------------------
(* What loadTypes, collectEnums and emitDart refuse *)

\* FIELD_RE: snake_case, or lowerCamelCase without separators.
FieldName(name) ==
  /\ name # <<>>
  /\ name[1].stem \in Letters /\ name[1].cap = "lower" /\ name[1].sep = "none"
  /\ \/ \A i \in 1..Len(name) : name[i].cap = "lower" /\ name[i].sep \in {"none", "underscore"}
     \/ \A i \in 1..Len(name) : name[i].sep = "none"

TypeName(name) ==
  /\ name # <<>>
  /\ name[1].stem \in Letters /\ name[1].cap # "lower"
  /\ \A i \in 1..Len(name) : name[i].sep = "none"

TypeNames(types) == {types[i].name : i \in 1..Len(types)}

\* One $def, after the types before it.
DefAccepted(seen, type) ==
  /\ TypeName(type.name)
  /\ type.name \notin TypeNames(seen)
  /\ \A i \in 1..Len(type.props) :
       FieldName(type.props[i].name) /\ type.props[i].sound

\* One file of the index; types is what the files before it defined.
DocumentAccepted(types, document) ==
  /\ document # NoDocument
  /\ \A i \in 1..Len(document) :
       DefAccepted(types \o SubSeq(document, 1, i - 1), document[i])

RefsKnown(types) ==
  \A t \in 1..Len(types) : \A i \in 1..Len(types[t].props) :
     types[t].props[i].ref \in TypeNames(types) \cup {<<>>}

\* Where collectEnums finds a string enum: <<type, property>>.
EnumFields(types) ==
  UNION {{<<types[t], types[t].props[i]>> :
            i \in {j \in 1..Len(types[t].props) : types[t].props[j].values # <<>>}} :
         t \in 1..Len(types)}

Distinct(s, Symbol(_)) ==
  \A i, j \in 1..Len(s) : Symbol(s[i]) = Symbol(s[j]) => i = j

EnumsAccepted(types) ==
  \A e \in EnumFields(types) :
     /\ \A i \in 1..Len(e[2].values) : Portable(e[2].values[i])
     /\ Distinct(e[2].values, Pascal)
     /\ \A f \in EnumFields(types) :
          EnumTypeName(e[1], e[2]) = EnumTypeName(f[1], f[2])
            => e[2].values = f[2].values

\* Mutant: wire names are compared, not what they become.
DartFieldsByWireName(type) ==
  LET Ident(prop) == prop.name IN Distinct(type.props, Ident)

DartFieldsAccepted(type) ==
  LET Ident(prop) == DartIdent(prop.name) IN Distinct(type.props, Ident)

DartAccepted(types) ==
  /\ \A e \in EnumFields(types) : Distinct(e[2].values, DartConstName)
  /\ \A t \in 1..Len(types) : DartFieldsAccepted(types[t])

\* The emitters run one after the other and write nothing until the last returned.
Emittable(types) ==
  /\ RefsKnown(types)
  /\ EnumsAccepted(types)
  /\ DartAccepted(types)
=============================================================================
