---------------------------- MODULE RecipeStore ----------------------------
(***************************************************************************)
(* research/labels/storage.py and research/weights/storage.py: label sets  *)
(* and weight sets in one HDF5 file, each under a key made of its recipe.  *)
(* A frame and its attributes are written one after the other; the program *)
(* may be aborted in between.  What an abort does to the file as a whole   *)
(* is left out.                                                            *)
(***************************************************************************)
EXTENDS Integers

CONSTANTS Symbols,     \* symbol -> the group name symbol_to_key gives it
          Thresholds,  \* in tenths: Decimal('1000.5') is 10005
          LabelRecipes, WeightRecipes,  \* identified by their config_hash
          MaxStores    \* bound

ASSUME StoreAssumption == Thresholds \subseteq Nat /\ MaxStores \in Nat

ForLabels == "labels"   \* the weight recipe of a label set
Recipes == [symbol : DOMAIN Symbols, threshold : Thresholds,
            label : LabelRecipes, weight : WeightRecipes \cup {ForLabels}]

\* threshold_to_key keeps the integer part only.
ThresholdKey(threshold) == threshold \div 10

KeyOfWeights(r) == [group |-> Symbols[r.symbol], thr |-> ThresholdKey(r.threshold),
                    label |-> IF r.weight = ForLabels THEN r.label ELSE ForLabels,
                    weight |-> r.weight]
\* _labels_key, _weights_key.
Key(r) == [group |-> Symbols[r.symbol], thr |-> ThresholdKey(r.threshold),
           label |-> r.label, weight |-> r.weight]

VARIABLES
  nodes,    \* the file: key -> frame and attributes
  writing,  \* the store call under way: what it has yet to write
  known,    \* history: recipe -> the last frame whose store call returned
  stores    \* history: how many calls there were; numbers the frames

storeVars == <<nodes, writing, known, stores>>

NoAttrs == {}
Done == [step |-> "none"]
Writing(step, r, frame) == [step |-> step, recipe |-> r, frame |-> frame]

Put(f, k, v) == [x \in DOMAIN f \cup {k} |-> IF x = k THEN v ELSE f[x]]
Without(f, ks) == [x \in DOMAIN f \ ks |-> f[x]]
\* The recipes a store may replace: those that differ from r at most in how the
\* symbol is spelled and in the fraction of the threshold.
Replaced(r) == {q \in DOMAIN known : /\ Symbols[q.symbol] = Symbols[r.symbol]
                                     /\ ThresholdKey(q.threshold) = ThresholdKey(r.threshold)
                                     /\ q.label = r.label /\ q.weight = r.weight}

StoreInit == nodes = <<>> /\ writing = Done /\ known = <<>> /\ stores = 0

\* store_labels, store_weights up to the removal: overwrite=False refuses.
BeginStore(r, overwrite) ==
  /\ writing.step = "none" /\ stores < MaxStores
  /\ stores' = stores + 1
  /\ IF Key(r) \in DOMAIN nodes /\ ~overwrite
     THEN UNCHANGED <<nodes, writing, known>>
     ELSE /\ nodes' = Without(nodes, {Key(r)})
          /\ writing' = Writing("put", r, stores')
          /\ known' = Without(known, Replaced(r))

PutFrame ==
  /\ writing.step = "put"
  /\ nodes' = Put(nodes, Key(writing.recipe), [frame |-> writing.frame, attrs |-> NoAttrs])
  /\ writing' = [writing EXCEPT !.step = "attrs"]
  /\ UNCHANGED <<known, stores>>

\* The attributes; the count of rows stands for what they say of the frame.
PutAttrs ==
  /\ writing.step = "attrs"
  /\ nodes' = [nodes EXCEPT ![Key(writing.recipe)].attrs =
                 {[recipe |-> writing.recipe, n |-> writing.frame]}]
  /\ known' = Put(known, writing.recipe, writing.frame)
  /\ writing' = Done
  /\ UNCHANGED stores

\* The program is aborted, or one of the writes raises.
StoreAborted ==
  /\ writing.step # "none"
  /\ writing' = Done
  /\ UNCHANGED <<nodes, known, stores>>

StoreNext ==
  \/ \E r \in Recipes, overwrite \in BOOLEAN : BeginStore(r, overwrite)
  \/ PutFrame \/ PutAttrs \/ StoreAborted

StoreSpec == StoreInit /\ [][StoreNext]_storeVars

\* load_labels, load_weights: the frame, or {} where the code raises KeyError.
Load(r) == IF Key(r) \in DOMAIN nodes THEN {nodes[Key(r)].frame} ELSE {}

\* list_label_configs and list_weight_configs read attributes only, and fail on a
\* node that has none.
Listed(r, kind) == {k \in DOMAIN nodes : /\ k.group = Symbols[r.symbol]
                                         /\ k.thr = ThresholdKey(r.threshold)
                                         /\ (k.weight = ForLabels) = (kind = ForLabels)}
ListFails(r, kind) == \E k \in Listed(r, kind) : nodes[k].attrs = NoAttrs

\* The index of a listing: the last part of the key, so a weight set goes by its
\* own hash without its label set's.
Hash(k) == IF k.weight = ForLabels THEN k.label ELSE k.weight
\* label_config_hash and n_weights (n_labels) beside what the hash stands for.
ListingRow(recipe, n) == [label |-> recipe.label, weight |-> recipe.weight, n |-> n]

\* rows[hash] = row: of the nodes with one hash the last in store.keys() leaves its
\* row. Which that is depends on the hashes and is left open.
RowsListed(r, kind) ==
  [h \in {Hash(k) : k \in Listed(r, kind)} |->
     LET last == CHOOSE k \in Listed(r, kind) : Hash(k) = h
     IN  {ListingRow(a.recipe, a.n) : a \in nodes[last].attrs}]

-----------------------------------------------------------------------------
(* Properties.                                                             *)

StoreTypeOK ==
  /\ writing.step \in {"none", "put", "attrs"} /\ stores \in 0..MaxStores
  /\ DOMAIN nodes \subseteq {Key(r) : r \in Recipes}
  /\ \A k \in DOMAIN nodes : nodes[k].frame \in 1..stores
  /\ DOMAIN known \subseteq Recipes

\* Is there another node whose row goes to the same place as that of r?
Contested(r) == \E k \in Listed(r, r.weight) : Hash(k) = Hash(Key(r)) /\ k # Key(r)

\* What store returned for a recipe is what load gives for it, until a store of the
\* same key began: one for the same recipe, or for a threshold that differs in the
\* fraction only (labels/storage.py:79-92, weights/storage.py:103-117,
\* hdf5_keys.py:40). A listing that does not fail has a row for it, and the row is
\* its own unless the same weight recipe is stored for another label set; for a
\* label set it always is. Attributes never describe another frame than their own.
KeepsWhatWasStored ==
  /\ \A r \in DOMAIN known :
       LET rows == RowsListed(r, r.weight)
       IN  /\ Load(r) = {known[r]}
           /\ nodes[Key(r)].attrs = {[recipe |-> r, n |-> known[r]]}
           /\ Contested(r) => r.weight # ForLabels
           /\ \/ ListFails(r, r.weight)
              \/ /\ Hash(Key(r)) \in DOMAIN rows
                 /\ Contested(r) \/ rows[Hash(Key(r))] = {ListingRow(r, known[r])}
  /\ \A k \in DOMAIN nodes : \A a \in nodes[k].attrs : a.n = nodes[k].frame

\* "List every weight recipe stored for (symbol, threshold), across ALL parent label
\* sets", each with its label_config_hash, "the provenance link" (weights/storage.py:
\* 162-167): a listing that does not fail has the row of every weight set. (Of two
\* label sets with one weight recipe it has one row.)
EveryWeightSetListed ==
  \A r \in DOMAIN known :
    r.weight # ForLabels =>
      \/ ListFails(r, r.weight)
      \/ \E h \in DOMAIN RowsListed(r, r.weight) :
           ListingRow(r, known[r]) \in RowsListed(r, r.weight)[h]

=============================================================================
