------------------------------ MODULE Listings ------------------------------
(***************************************************************************)
(* What Redash lists: the values of one result column, or the data sources *)
(* of one refresh.  A list grows by one value or source at a time.         *)
(***************************************************************************)
EXTENDS Results, Registry

CONSTANTS MaxRows,        \* values in a result column
          MaxSources,     \* data sources in the registry
          RowValues,      \* the values of columns
          ListedSources   \* the data sources

ASSUME ListingsAssumption ==
  /\ MaxRows \in Nat /\ MaxSources \in Nat
  /\ RowValues \subseteq Values
  /\ \A ds \in ListedSources : ds.id \in Int /\ ds.name \in DOMAIN Lower

VARIABLES form,    \* the type of the column, or "registry"
          items    \* the values of the column, or the sources

AddRow ==
  /\ form \in ColumnTypes /\ Len(items) < MaxRows
  /\ \E v \in RowValues : items' = Append(items, v)
  /\ UNCHANGED form

\* Ids are distinct, and so are names: of two equal ones byExact would keep
\* the one listed last.
ListSource ==
  /\ form = "registry" /\ Len(items) < MaxSources
  /\ \E ds \in ListedSources :
       /\ \A k \in DOMAIN items : ds.id # items[k].id /\ ds.name # items[k].name
       /\ items' = Append(items, ds)
  /\ UNCHANGED form

ListInit == form \in ColumnTypes \cup {"registry"} /\ items = <<>>

Listing == ListInit /\ [][AddRow \/ ListSource]_<<form, items>>

-----------------------------------------------------------------------------
(* Both wires give a result column one type that all its values have:      *)
(* MySQL one Go type, with NULLs, numbers and long digits kept (columnKind *)
(* and convertValue); PostgreSQL the form the advertised type promises,    *)
(* whatever a datetime column holds, and for other types when the values   *)
(* are what Redash's own type inference gives them.                        *)
ColumnsKeepTheirType ==
  form \in ColumnTypes => MyColumnKeeps(form, items) /\ PgColumnKeeps(form, items)

\* What a name should stand for: the source that has it, character for
\* character, else the oldest one that has it in another case.
Meant(name) ==
  LET listed == {items[k] : k \in DOMAIN items}
      exact == {ds \in listed : ds.name = name}
      any == {ds \in listed : Lower[ds.name] = Lower[name]}
  IN IF exact # {} THEN exact ELSE {ds \in any : \A e \in any : ds.id <= e.id}

\* A published list has every source once, in its wire.  (A type that both
\* tests accept is served as PostgreSQL.)
PublishesAll(views) ==
  /\ Len(views) = Len(items)
  /\ {views[k] : k \in DOMAIN views} = {View(items[k]) : k \in DOMAIN items}
  /\ \A wire \in {"postgres", "mysql"} :
       LET types == IF wire = "postgres" THEN PostgresTypes ELSE MySQLTypes \ PostgresTypes
           served == FilterByType(items, types)
       IN /\ {views[k] : k \in {j \in DOMAIN views : views[j].wire = wire}}
               = {View(served[k]) : k \in DOMAIN served}
          /\ \A j, k \in DOMAIN served : served[j] = served[k] => j = k

(* Redash lists its sources in no particular order, which decides neither  *)
(* what a name stands for from one refresh to the next nor the published   *)
(* list: there is one list that sort.Slice can leave, the same for every   *)
(* order, and it has the sources each wire serves.                         *)
OrderDecidesNothing ==
  form = "registry" =>
    /\ \A name \in DOMAIN Lower : Lookup(NewDataSourceRegistry(items), name) = Meant(name)
    /\ \E views \in NewDataSourceViews(items) :
         /\ PublishesAll(views)
         /\ \A order \in Bijections(Len(items)) :
              NewDataSourceViews(Arranged(items, order)) = {views}
=============================================================================
