------------------------------ MODULE ScaleCatalog ------------------------------
(***************************************************************************)
(* Which integer fields a workload's window drives: the scale-backend      *)
(* annotation, the policy's catalog (spec.backends) and the value of a     *)
(* field whose path is unset (pkg/backends/bindings.go, crd.go).           *)
(*                                                                         *)
(* A token of the annotation is a record of the key and the name after it, *)
(* "" where the token has none; the token with neither is a blank between  *)
(* two commas.  Namespaces are left out: all objects are in one.  A field  *)
(* is a triple of kind, name and path.                                     *)
(***************************************************************************)
EXTENDS Integers, Sequences, SequencesExt

CONSTANTS
  Catalog,     \* policy.spec.backends: on every key a record of the kind, the
               \* paths of the patches, skip (skipDownscaling) and default
               \* (defaultWhenUnset, Unset where it is nil)
  Workload,    \* the name of the Deployment
  KnownKinds   \* the kinds knownDefaultOne knows

Unset == -1    \* a missing path, a nil *int32, or the error of reading neither

ASSUME CatalogAssumption ==
  \A k \in DOMAIN Catalog :
    /\ Catalog[k].skip \in BOOLEAN
    /\ Catalog[k].default \in Nat \cup {Unset}

Object(f) == <<f[1], f[2]>>

Blank == [key |-> "", name |-> ""]

\* splitBinding: a bare key or "key=" names the object like the workload.
Binding(token) ==
  [key |-> token.key, name |-> IF token.name = "" THEN Workload ELSE token.name]

\* ParseBindings: blanks are skipped, the first token of a key counts.
ParseBindings(raw) ==
  FoldLeft(LAMBDA out, token :
             IF token = Blank \/ \E i \in DOMAIN out : out[i].key = token.key
             THEN out ELSE Append(out, Binding(token)),
           <<>>, raw)

\* What BindingsForWorkload, ParseBindings, ResolveCatalog and splitPatches
\* refuse: no binding, a token without a key, a key outside the catalog, an
\* entry that lists a path twice.
Resolvable(raw) ==
  /\ ParseBindings(raw) # <<>>
  /\ \A i \in DOMAIN raw : raw[i] = Blank \/ raw[i].key # ""
  /\ \A i \in DOMAIN ParseBindings(raw) :
       LET key == ParseBindings(raw)[i].key
       IN  key \in DOMAIN Catalog /\ IsInjective(Catalog[key].paths)

\* ResolveCatalog: a step for every path of every bound entry; an entry
\* without paths is external and has none.
ResolveCatalog(raw) ==
  LET bindings == ParseBindings(raw)
      Steps(b) ==
        [j \in DOMAIN Catalog[b.key].paths |->
           [key |-> b.key,
            field |-> <<Catalog[b.key].kind, b.name, Catalog[b.key].paths[j]>>,
            skip |-> Catalog[b.key].skip]]
  IN  FlattenSeq([i \in DOMAIN bindings |-> Steps(bindings[i])])

\* fieldBackend.Current and defaultWhenPathUnset on field f with live value v;
\* default is the Target's DefaultWhenUnset.
Current(v, f, default) ==
  IF v # Unset THEN v
  ELSE IF default # Unset THEN default
  ELSE IF f[1] \in KnownKinds THEN 1
  ELSE Unset

\* The entry of key k has the path of field f.
Drives(k, f) == Catalog[k].kind = f[1] /\ Contains(Catalog[k].paths, f[3])

\* The value an unset path stands for, by the catalog entries that drive it.
Implied(f) ==
  LET keys == {k \in DOMAIN Catalog : Drives(k, f)}
  IN  IF keys = {} THEN Unset
      ELSE Current(Unset, f, Catalog[CHOOSE k \in keys : TRUE].default)

\* The effective value of f when its path holds v.
Level(f, v) == IF v = Unset THEN Implied(f) ELSE v
=============================================================================
