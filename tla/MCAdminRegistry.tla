---------------------------- MODULE MCAdminRegistry ---------------------------
(* The console of the reference application: the CMS and a home page.       *)
EXTENDS AdminRegistry

Page(p) == Extension({p}, <<p>>)
ReferenceAdmin == Application(<<Page("cms"), Page("home")>>)
=============================================================================
