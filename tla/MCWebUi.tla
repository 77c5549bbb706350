------------------------------ MODULE MCWebUi ------------------------------
EXTENDS WebUi
MCUsed == {"station", "lat", "alt", "adm", "tz", "tx"}
MCValues == {0, 1}
MCFineValues == {2}
=============================================================================
