----------------------------- MODULE InputDatabase ------------------------------
(***************************************************************************)
(* The input database (parflow_lib/input_database.c): the keys and values  *)
(* of the run's input deck, read at start-up into a height balanced tree,  *)
(* asked for by every module when it is set up, and written out at the end *)
(* as a deck (<run>.pftcl) that says which keys were not used.             *)
(*                                                                         *)
(* A value is a string.  Of a string the model keeps what the conversions  *)
(* of the code make of it: the number sscanf reads from it, in units of a  *)
(* hundredth, or Text when there is none, or TooLong when it exceeds the   *)
(* buffer.  Integers are the multiples of 100.  sprintf("%f") keeps six    *)
(* decimals of a double; here it keeps one, the multiples of 10.           *)
(***************************************************************************)
EXTENDS HeightBalancedTree

CONSTANTS
  Keys,          \* keys of the decks and of the program's calls
  DeckValues,    \* values a deck may give a key
  MaxEntries,    \* entries of the longest deck
  Calls          \* calls [get, key, default] the program makes, in any order

Text    == -1         \* a string that begins with no number
TooLong == -2
None    == -3         \* no default: the key is required

Gets == {"String", "Double", "Int"}

ASSUME DatabaseAssumption ==
  /\ Keys \subseteq Nat \ {NULL}
  /\ DOMAIN DeckValues = Keys
  /\ MaxEntries \in Nat
  /\ \A c \in Calls : c.get \in Gets /\ c.key \in Keys
  /\ \A c \in Calls : c.default # None =>       \* a string, a double or an int
       /\ c.default \in Nat \/ (c.get = "String" /\ c.default = Text)
       /\ c.get = "Int" => c.default % 100 = 0

VARIABLES
  db,            \* the tree
  phase,         \* "reading", "running", "exit" (InputError), "done" (freed)
  entries,       \* entries of the deck that are still to be read
  answers,       \* history: what each call has returned
  usage          \* deck written by IDB_PrintUsage

vars == <<db, phase, entries, answers, usage>>

IDB_NewEntry(value, used) == [value |-> value, used |-> used]

ValueOf(k) == db.node[k].obj.value

\* sscanf: what a call makes of a string.
ReadAs(get, s) ==
  IF get = "Int" /\ s # Text THEN (s \div 100) * 100 ELSE s

\* sprintf: the string a default is stored as; seeded fault: a double written as
\* an integer.
WrittenWhole(get, s) == IF get = "Double" THEN (s \div 100) * 100 ELSE s

Written(get, s) == IF get = "Double" THEN ((s + 5) \div 10) * 10 ELSE s
--------------------------------------------------------------------------------
Init ==
  /\ db = HBT_new
  /\ phase = "reading"
  /\ entries \in 0..MaxEntries
  /\ answers = [c \in Calls |-> {}]
  /\ usage = << >>

\* An entry of the file: a value that does not fit ends the program, a key that
\* was there before keeps its first value.  Seeded fault: it gets the last one.
ReadEntryOverwrites(k, s) ==
  /\ phase = "reading" /\ entries > 0
  /\ IF s = TooLong
     THEN phase' = "exit" /\ UNCHANGED <<db, entries>>
     ELSE /\ db' = [HBT_insert(db, k, IDB_NewEntry(s, FALSE)) EXCEPT
                      !.node[k].obj = IDB_NewEntry(s, FALSE)]
          /\ entries' = entries - 1
          /\ phase' = phase
  /\ UNCHANGED <<answers, usage>>

ReadEntry(k, s) ==
  /\ phase = "reading" /\ entries > 0
  /\ IF s = TooLong
     THEN phase' = "exit" /\ UNCHANGED <<db, entries>>
     ELSE /\ db' = HBT_insert(db, k, IDB_NewEntry(s, FALSE))
          /\ entries' = entries - 1
          /\ phase' = phase
  /\ UNCHANGED <<answers, usage>>

CloseFile ==
  /\ phase = "reading" /\ entries = 0
  /\ phase' = "running"
  /\ UNCHANGED <<db, entries, answers, usage>>

\* The key is there: it is read, and marked once the value has proved valid.
GetFound(c) ==
  LET s == ValueOf(c.key)
  IN  /\ HBT_lookup(db, c.key) # NULL
      /\ IF c.get # "String" /\ s = Text
         THEN phase' = "exit" /\ UNCHANGED <<db, answers>>
         ELSE /\ db' = [db EXCEPT !.node[c.key].obj.used = TRUE]
              /\ answers' = [answers EXCEPT ![c] = @ \cup {ReadAs(c.get, s)}]
              /\ phase' = phase

\* The key is not there: the default enters the database as a
\* string, and is returned as it is.  Seeded fault: it is not marked as used.
GetDefaultUnmarked(c) ==
  /\ HBT_lookup(db, c.key) = NULL
  /\ db' = HBT_insert(db, c.key, IDB_NewEntry(Written(c.get, c.default), FALSE))
  /\ answers' = [answers EXCEPT ![c] = @ \cup {c.default}]
  /\ phase' = phase

GetDefault(c) ==
  /\ HBT_lookup(db, c.key) = NULL
  /\ db' = HBT_insert(db, c.key, IDB_NewEntry(Written(c.get, c.default), TRUE))
  /\ answers' = [answers EXCEPT ![c] = @ \cup {c.default}]
  /\ phase' = phase

GetMissing(c) ==
  /\ HBT_lookup(db, c.key) = NULL
  /\ phase' = "exit"
  /\ UNCHANGED <<db, answers>>

\* The six ways to ask.
IDB_GetString(c) ==
  c.get = "String" /\ c.default = None /\ (GetFound(c) \/ GetMissing(c))

IDB_GetStringDefault(c) ==
  c.get = "String" /\ c.default # None /\ (GetFound(c) \/ GetDefault(c))

IDB_GetDouble(c) ==
  c.get = "Double" /\ c.default = None /\ (GetFound(c) \/ GetMissing(c))

IDB_GetDoubleDefault(c) ==
  c.get = "Double" /\ c.default # None /\ (GetFound(c) \/ GetDefault(c))

IDB_GetInt(c) ==
  c.get = "Int" /\ c.default = None /\ (GetFound(c) \/ GetMissing(c))

IDB_GetIntDefault(c) ==
  c.get = "Int" /\ c.default # None /\ (GetFound(c) \/ GetDefault(c))

Get(c) ==
  /\ phase = "running"
  /\ \/ IDB_GetString(c) \/ IDB_GetStringDefault(c)
     \/ IDB_GetDouble(c) \/ IDB_GetDoubleDefault(c)
     \/ IDB_GetInt(c)    \/ IDB_GetIntDefault(c)
  /\ UNCHANGED <<entries, usage>>

\* IDB_PrintUsage and IDB_FreeDB, at the end of the program.
PrintAndFree ==
  /\ phase = "running"
  /\ usage' = LET keys == HBT_printf(db)
              IN  [i \in DOMAIN keys |-> [key |-> keys[i], obj |-> db.node[keys[i]].obj]]
  /\ db' = HBT_new
  /\ phase' = "done"
  /\ UNCHANGED <<entries, answers>>

Ended == phase \in {"exit", "done"} /\ UNCHANGED vars

Next ==
  \/ \E k \in Keys : \E s \in DeckValues[k] : ReadEntry(k, s)
  \/ CloseFile
  \/ \E c \in Calls : Get(c)
  \/ PrintAndFree
  \/ Ended

Spec == Init /\ [][Next]_vars
--------------------------------------------------------------------------------
\* The tree is ordered and height balanced, and its balance factors, height and
\* number of objects are right, after whatever sequence of insertions; every
\* object in it is found, and HBT_successor leads from each key to the next one.
TreeInOrder ==
  /\ HeightBalanced(db)
  /\ LET printed == HBT_printf(db)
     IN  /\ \A i \in 2..Len(printed) : printed[i - 1] < printed[i]
         /\ Range(printed) = DOMAIN db.node
         /\ db.num = Len(printed)
  /\ \A k \in Keys : HBT_lookup(db, k) = IF k \in DOMAIN db.node THEN k ELSE NULL
  /\ \A k \in Keys \cup {NULL} : HBT_successor(db, k) = NextKey(db, k)

\* HBT_delete, from whatever tree insertions built: the other keys stay in order,
\* each found, and are counted.  Deletion of an element whose successor is not its
\* right son is left out: there the stack is wrong and a null pointer is followed.
DeleteKeepsTheOthers ==
  phase = "reading" =>
    \A k \in DOMAIN db.node :
      LET t == HBT_delete(db, k)
          printed == HBT_printf(t)
          right == Son(db, k, UNBALANCED_RIGHT)
      IN  right = NULL \/ Son(db, k, UNBALANCED_LEFT) = NULL \/ Leftmost(db, right) = right
            => /\ printed = SelectSeq(HBT_printf(db), LAMBDA x : x # k)
               /\ \A x \in Range(printed) : HBT_lookup(t, x) = x
               /\ t.num = Len(printed)

\* The answers a and b of a call are the same, or a is its default and b is what is
\* left of it to the decimals that %f writes, which the program's own defaults of
\* 1e-7 (Solver.Nonlinear.ResidualTol) and 1e-8 (DropTol) do not survive.
SameAnswer(c, a, b) ==
  \/ a = b
  \/ /\ c.get = "Double" /\ a = c.default
     /\ b % 10 = 0
     /\ -5 <= a - b /\ a - b <= 5

\* A call gives the same answer every time it is made, whichever calls with other
\* defaults or other conversions were made before and between: "only a single
\* default value can be found for a given key" (input_database.c:232).  A default
\* finer than %f is given as it is once, and rounded from then on.
OneAnswerPerCall ==
  \A c \in Calls : \A a, b \in answers[c] : SameAnswer(c, a, b) \/ SameAnswer(c, b, a)

\* The deck written at the end, read by the same program, gives the calls the
\* answers they got, but for defaults finer than %f, which come back rounded; it
\* has no required key missing, and flags as not used exactly the keys no call
\* asked for.
UsageReplays ==
  phase = "done" =>
    LET Printed(k) == {i \in DOMAIN usage : usage[i].key = k}
    IN  /\ \A c \in Calls : answers[c] # {} =>
             \E i \in Printed(c.key) :
               /\ \A a \in answers[c] : SameAnswer(c, a, ReadAs(c.get, usage[i].obj.value))
               /\ usage[i].obj.used
        /\ \A k \in Keys : Cardinality(Printed(k)) <= 1
        /\ \A i \in DOMAIN usage : usage[i].obj.used =>
             \E c \in Calls : c.key = usage[i].key /\ answers[c] # {}

Dict == INSTANCE Dictionary WITH
  Key <- Keys,
  Value <- (UNION {DeckValues[k] : k \in Keys})
             \cup {Written(c.get, c.default) : c \in {x \in Calls : x.default # None}},
  Missing <- None,
  dict <- [k \in Keys |-> IF HBT_lookup(db, k) = NULL THEN None ELSE ValueOf(k)]

\* A key that has a value keeps it: the deck's first entry for it, or the first
\* default asked for.
ImplementsDictionary == Dict!Spec
================================================================================
