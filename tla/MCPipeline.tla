----------------------------- MODULE MCPipeline ------------------------------
EXTENDS Pipeline

=============================================================================
