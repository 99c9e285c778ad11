--------------------------- MODULE MCProviderAuth ---------------------------
EXTENDS ProviderAuth

MCSurfaces == <<"connector_api", "cloud_browser">>
MCQueueIds == <<"q1", "q2">>
=============================================================================
