----------------------------- MODULE MCDownload -----------------------------
(* A package site and the backup site, one or two builds.                  *)
EXTENDS Download

SiteAndBackup == <<"site", "backup">>
AllSites == <<"primary", "site", "backup">>
=============================================================================
