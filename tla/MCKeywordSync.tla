-------------------------- MODULE MCKeywordSync --------------------------
EXTENDS KeywordSync
=============================================================================
