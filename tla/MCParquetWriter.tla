-------------------------- MODULE MCParquetWriter --------------------------
EXTENDS ParquetWriter
=============================================================================
