--------------------------- MODULE ManagedVersions ---------------------------
(* The datasets that a session, an export and a page speak of.              *)
CONSTANTS
    Version,   \* managed versions that are or may come to be in the workspace
    Manual,    \* datasets that are not managed: files given by their path
    None       \* no dataset

ASSUME DatasetAssumption == Version \cap Manual = {} /\ None \notin Version \cup Manual
=============================================================================
