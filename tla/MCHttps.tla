---- MODULE MCHttps ----
EXTENDS HttpsExchange
====
