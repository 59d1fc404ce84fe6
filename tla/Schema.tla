------------------------------- MODULE Schema --------------------------------
(* Schemas and their builders: iso8583/schema.go and schema_builder.go. Field  *)
(* definitions and the arrays behind their validator lists are cells that      *)
(* builders and schemas may share; append writes into an array with room.      *)
EXTENDS Naturals, Sequences, FiniteSets, TLC

CONSTANTS
  Builders,     \* builders; each also names the schema that it builds
  Cells,        \* field definitions
  Arrays,       \* arrays of validators
  SchemaDEs,    \* data elements; 0 stands for a BER-TLV tag
  MaxDEIndex,   \* maxDEIndex: 192 in the code
  MaxUnits,     \* maxFieldUnits
  MaxCallsMade  \* bound on the calls

VARIABLES
  builder,      \* a builder: the definitions it refers to and what it was told
  schema,       \* the schema it built last, or NoSchema
  cell, array,  \* the heap
  reused,       \* builders that were used after Build
  made          \* calls so far

schemaVars == <<builder, schema, cell, array, reused, made>>

NoSchema == [built |-> FALSE]
Unused == [used |-> FALSE, defs |-> <<>>, errs |-> FALSE]
FreeCell == [free |-> TRUE]
FreeArray == [free |-> TRUE]

SchemaInit ==
  /\ builder = [b \in Builders |-> Unused] /\ schema = [b \in Builders |-> NoSchema]
  /\ cell = [c \in Cells |-> FreeCell] /\ array = [a \in Arrays |-> FreeArray]
  /\ reused = {} /\ made = 0

Alloc(heap, empty) == CHOOSE x \in DOMAIN heap : heap[x] = empty
Room(heap, empty, n) == Cardinality({x \in DOMAIN heap : heap[x] = empty}) >= n

Called(b) ==
  /\ made < MaxCallsMade /\ made' = made + 1
  /\ reused' = IF schema[b].built THEN reused \cup {b} ELSE reused

\* The builder that is used next; they are alike.
IsNext(b) == ~builder[b].used /\ b = CHOOSE x \in Builders : ~builder[x].used

\* The validators of a definition.
rules(d) == SubSeq(array[d.list.arr].elems, 1, d.list.len)

-----------------------------------------------------------------------------
\* NewSchema, with MTI, Bitmap and Headerless; the other builders are derived.
NewSchema(b, mti, headerless, levels) ==
  /\ \A x \in Builders : ~builder[x].used
  /\ IsNext(b) /\ Called(b)
  /\ builder' = [builder EXCEPT ![b] = [used |-> TRUE, defs |-> <<>>, errs |-> FALSE, isTLV |-> FALSE,
                                        mti |-> mti, headerless |-> headerless, levels |-> levels]]
  /\ UNCHANGED <<schema, cell, array>>

\* Field, Composite (sub) or Tag (DE 0): a second definition replaces the first and is an
\* error that Build reports. Three Validate options grow the list to an array of four.
Field(b, de, d, n) ==
  LET c == Alloc(cell, FreeCell)
      a == Alloc(array, FreeArray)
  IN /\ builder[b].used /\ Called(b)
     /\ Room(cell, FreeCell, 1) /\ Room(array, FreeArray, 1)
     /\ cell' = [cell EXCEPT ![c] = d @@ [list |-> [arr |-> a, len |-> n]]]
     /\ array' = [array EXCEPT ![a] = [cap |-> IF n = 3 THEN 4 ELSE 0, elems |-> [k \in 1..n |-> b]]]
     /\ builder' = [builder EXCEPT ![b].defs = (de :> c) @@ @, ![b].isTLV = @ \/ de = 0,
                                   ![b].errs = @ \/ de \in DOMAIN builder[b].defs]
     /\ UNCHANGED schema

\* Override, of a data element only, with MaxLen or WithComposite.
Override(b, de, opt) ==
  /\ builder[b].used /\ Called(b)
  /\ IF de \in DOMAIN builder[b].defs
     THEN cell' = [cell EXCEPT ![builder[b].defs[de]] = opt @@ @] /\ UNCHANGED builder
     ELSE builder' = [builder EXCEPT ![b].errs = TRUE] /\ UNCHANGED cell
  /\ UNCHANGED <<schema, array>>

\* Override with Validate: append, in place where the array has room.
OverrideValidate(b, de) ==
  LET c == builder[b].defs[de]
      l == cell[c].list
      old == array[l.arr]
      a == Alloc(array, FreeArray)
  IN /\ builder[b].used /\ de \in DOMAIN builder[b].defs /\ Called(b)
     /\ IF l.len < old.cap
        THEN /\ array' = [array EXCEPT ![l.arr].elems = [k \in 1..(l.len + 1) |-> IF k <= l.len THEN @[k] ELSE b]
                                                          \o SubSeq(@, l.len + 2, Len(@))]
             /\ cell' = [cell EXCEPT ![c].list.len = @ + 1]
        ELSE /\ Room(array, FreeArray, 1)
             /\ array' = [array EXCEPT ![a] = [cap |-> IF old.cap = 0 THEN 1 ELSE 2 * old.cap, elems |-> Append(rules(cell[c]), b)]]
             /\ cell' = [cell EXCEPT ![c].list = [arr |-> a, len |-> l.len + 1]]
     /\ UNCHANGED <<builder, schema>>

validateDef(d) == /\ d.sub \/ d.codec
                  /\ d.prefix \/ d.sub \/ d.max > 0
                  /\ d.max <= MaxUnits
                  /\ d.composite => d.sub
validateTagDef(d) == (d.sub \/ d.codec) /\ d.max <= MaxUnits

\* Whether Build accepts.
Builds(r) ==
  /\ ~r.errs
  /\ \A de \in DOMAIN r.defs : LET def == cell[r.defs[de]] IN
       IF de = 0 THEN validateTagDef(def) ELSE de <= MaxDEIndex /\ validateDef(def)
  /\ ~r.isTLV => r.levels \in 1..3 /\ (r.mti \/ r.headerless)

\* Build: the schema refers to the definitions of the builder.
Build(b) ==
  /\ builder[b].used /\ ~schema[b].built /\ made < MaxCallsMade /\ made' = made + 1
  /\ Builds(builder[b])
  /\ schema' = [schema EXCEPT ![b] = [built |-> TRUE, defs |-> builder[b].defs, mti |-> builder[b].mti,
                                      isTLV |-> builder[b].isTLV, levels |-> builder[b].levels]]
  /\ UNCHANGED <<builder, cell, array, reused>>

\* What Derive tells the new builder.
derived(s, defs) ==
  [used |-> TRUE, defs |-> defs, errs |-> FALSE, isTLV |-> s.isTLV, mti |-> s.mti, levels |-> s.levels,
   headerless |-> ~s.mti /\ ~s.isTLV]

\* clone, into c, with a list in an array of its own. Mutated form: the list is shared.
cloneShares(d, a) == d
clone(d, a) == [d EXCEPT !.list.arr = a]

\* Derive: the n-th definition is cloned to the n-th free cell and array.
Derive(s, b) ==
  LET des == DOMAIN schema[s].defs
      cs == CHOOSE f \in [des -> {c \in Cells : cell[c] = FreeCell}] : \A x, y \in des : f[x] = f[y] => x = y
      as == CHOOSE f \in [des -> {a \in Arrays : array[a] = FreeArray}] : \A x, y \in des : f[x] = f[y] => x = y
      old(de) == cell[schema[s].defs[de]]
  IN /\ schema[s].built /\ IsNext(b) /\ Called(b)
     /\ Room(cell, FreeCell, Cardinality(des)) /\ Room(array, FreeArray, Cardinality(des))
     /\ cell' = [de \in {cs[x] : x \in des} |-> LET x == CHOOSE y \in des : cs[y] = de IN clone(old(x), as[x])] @@ cell
     /\ array' = [a \in {as[x] : x \in des} |->
                    LET x == CHOOSE y \in des : as[y] = a
                    IN [cap |-> old(x).list.len, elems |-> rules(old(x))]] @@ array
     /\ builder' = [builder EXCEPT ![b] = derived(schema[s], cs)]
     /\ UNCHANGED schema

\* A fixed field, one that is too wide, and a composite; what a tag can be.
Definitions ==
  [codec : {TRUE}, sub : {FALSE}, composite : {FALSE}, prefix : {FALSE}, max : {1, MaxUnits + 1}]
    \cup {[codec |-> FALSE, sub |-> TRUE, composite |-> TRUE, prefix |-> TRUE, max |-> 0]}
TagDefinitions == {d \in Definitions : ~d.sub}
Options == {[max |-> 0], [sub |-> TRUE, composite |-> TRUE]}

SchemaNext ==
  \/ \E b \in Builders :
       \/ \E mti \in BOOLEAN, levels \in {0, 1} : NewSchema(b, mti, ~mti, levels)
       \/ \E de \in SchemaDEs : \E d \in IF de = 0 THEN TagDefinitions ELSE Definitions :
            Field(b, de, d, IF validateDef(d) THEN 3 ELSE 0)
       \/ \E de \in SchemaDEs \ {0}, opt \in Options : Override(b, de, opt)
       \/ \E de \in SchemaDEs \ {0} : OverrideValidate(b, de)
       \/ Build(b)
  \/ \E s, b \in Builders : Derive(s, b)

-----------------------------------------------------------------------------
\* What a schema, or a builder, says of its fields.
Said(cl, ar, defs) ==
  [de \in DOMAIN defs |-> [def |-> [cl[defs[de]] EXCEPT !.list = SubSeq(ar[@.arr].elems, 1, @.len)]]]

\* What Build once accepted it accepts again from a Derive without changes, with or
\* without an MTI and for a tag-addressed schema too, unless the builder was used
\* again after Build.
DerivesBuild == \A b \in Builders \ reused :
  schema[b].built => Builds(derived(schema[b], schema[b].defs))

\* A call on one builder changes nothing of what another one or its schema says,
\* though they were derived from the same schema and append to copies of one list
\* (Derive, clone, Override). A schema is still open to its own builder. And what was
\* derived can be built.
OverlaysApart ==
  /\ []DerivesBuild
  /\ [][\A b, other \in Builders :
       LET Changed(x) == builder[x].used /\ Said(cell', array', builder[x].defs) # Said(cell, array, builder[x].defs)
       IN b # other /\ Changed(b) => ~Changed(other)]_schemaVars
=============================================================================
