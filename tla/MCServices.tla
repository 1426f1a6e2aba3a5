------------------------------ MODULE MCServices ------------------------------
(* Three redirects over three addresses, three terms, two items, and what   *)
(* may be imported: documents in order, and documents to be refused.        *)
EXTENDS Services, TLC

Redirect(source, target, enabled_) ==
  [source |-> source, target |-> target, enabled |-> enabled_]

MCRedirects ==
  {Redirect("a", "b", TRUE), Redirect("b", "a", TRUE), Redirect("b", "c", TRUE),
   Redirect("c", "a", TRUE), Redirect("a", "b", FALSE)}

Document(kind, shape, parents) == [kind |-> kind, shape |-> shape, parents |-> parents]

MCTermDocuments ==
  {Document("category", "tree", "a" :> "root"),
   Document("category", "tree", "a" :> "b" @@ "b" :> "root"),
   Document("category", "tree", "a" :> "b" @@ "b" :> "a"),
   Document("category", "tree", "b" :> "a" @@ "a" :> "root"),
   Document("category", "flat", "a" :> "root" @@ "c" :> "root")}

MCItemDocuments ==
  {[type |-> "string", values |-> "a" :> "string"],
   [type |-> "json", values |-> "a" :> "string" @@ "b" :> "other"],
   [type |-> "number", values |-> "b" :> "other"]}

ServiceSymmetry == Permutations(Requests) \union Permutations(Workers)
=============================================================================
