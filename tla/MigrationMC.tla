---------------------------- MODULE MigrationMC ----------------------------
(***************************************************************************)
(* The instance of Migration that TLC checks: the three indexes of the      *)
(* repository, with no bound on commands and interruptions.                 *)
(***************************************************************************)
EXTENDS Migration

TRIGRAM_INDEXES == <<"ix_analytics_reports_content_trgm", "ix_investigator_entities_name_trgm",
                     "ix_case_manager_cases_title_trgm">>
=============================================================================
