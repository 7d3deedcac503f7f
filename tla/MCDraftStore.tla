----------------------------- MODULE MCDraftStore -----------------------------
(* The draft file with three slots, the third an edit's, two accounts, two   *)
(* small texts and an oversized one, and room for two drafts.                *)
EXTENDS DraftStore
=============================================================================
