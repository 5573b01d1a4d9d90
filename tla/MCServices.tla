----------------------------- MODULE MCServices -----------------------------
(* Services on small instances: values a .cfg cannot write.                *)
EXTENDS Services

(* Reference fields of the collection whose documents are deleted.         *)
Field(action, many) == [on |-> action, many |-> many]
FieldLists == {<<Field("cascade", FALSE), Field("setNull", TRUE)>>,
               <<Field("setNull", FALSE), Field("cascade", FALSE), Field("restrict", TRUE)>>}

(* The database before the first migration has one table.                  *)
OneTable == {[table |-> "t", column |-> None]}
=============================================================================
